---- MODULE Spec2Model ----
(***************************************************************************)
(* One hash collection of kvdk: the HashList facade over its doubly-linked *)
(* record list and the hash index, the readers and writers that work on    *)
(* it, and the OldRecordsCleaner that reclaims the records writers retire. *)
(***************************************************************************)
EXTENDS Integers, Sequences, FiniteSets, TLC

\* ------------------------------------------------------------- bounds
NumWorkers == 2      \* access threads
NumKeys == 2         \* sub-keys of the collection
NumVals == 2         \* distinct values
MaxAddr == 4         \* record slots of the allocator arena
MaxTs == 6           \* the clock stops being read at this timestamp
MaxCleanerTs == 13   \* the same, where the pending queue is followed on its own
MaxQueueTs == 8      \* the same, where every queue of the cleaner is followed
MaxExpire == 1       \* expire times passed to SetExpireTime
MaxLimit == 1        \* num_limit_clean passed to TryCleanCachedOldRecords
DeleteBacklog == 1   \* scaled stand-in for the 10000000 of TryCleanAll
MaxStamp == 3        \* timestamps a caller of the bare interface may pass
kMaxCachedOldRecords == 1  \* scaled threshold of to_free in Destroy

Workers == 1..NumWorkers
Keys == 1..NumKeys
Vals == 1..NumVals
Addrs == 1..MaxAddr
NotFoundVal == 0      \* Get answers Status::NotFound: no value
EmptyVal == 0 - 1     \* the empty value "" of a delete record

VARIABLES
  rec,        \* arena: address -> DLRecord (NullRec while never allocated)
  header,     \* dl_list_.header_
  idx,        \* hash table entry of each internal key
  nameIdx,    \* hash table entry of the collection name points at this list
  size_,      \* HashList::size_
  nextAddr,   \* allocator: next slot never handed out
  freed,      \* allocator: how often each slot was returned
  clock,      \* version controller: last timestamp handed out
  snap,       \* version controller: snapshot held by each worker (0: none)
  oldest,     \* version controller: cached oldest snapshot timestamp
  lock,       \* bucket lock of each key (0: free, else the holder)
  pc,         \* position of each worker
  args,       \* HashWriteArgs / locals of the call each worker runs
  ret,        \* what the step just taken returned to its caller (NoRet: nothing)
  tcData,     \* thread_cache_[w].old_data_records
  tcDel,      \* thread_cache_[w].old_delete_records
  gData,      \* global_old_data_records_
  gDel,       \* global_old_delete_records_
  pending,    \* pending_free_space_entries_
  last_clean_all_ts,
  destroyed,  \* Destroy or DestroyAll ran
  aborted,    \* the process died in kvdk_assert or std::abort
  hist,       \* history of the run, read by the properties only
  teardown,   \* the locals of a Destroy or DestroyAll that is under way
  cleaning_lock_,    \* HashList::cleaning_lock_: the threads that hold it
  old_records_lock,  \* thread_cache_[w].old_records_lock (0: free, else the holder)
  job         \* position and locals of the cleaning call each thread runs

vars == <<rec, header, idx, nameIdx, size_, nextAddr, freed, clock, snap,
          oldest, lock, pc, args, ret, tcData, tcDel, gData, gDel, pending,
          last_clean_all_ts, destroyed, aborted, hist, teardown,
          cleaning_lock_, old_records_lock, job>>

\* the locks of the cleaner and the calls that hold them
sync == <<cleaning_lock_, old_records_lock, job>>

\* ------------------------------------------------------------- records
NullRec == [ts |-> 0, type |-> "None", status |-> "None", prev |-> 0,
            next |-> 0, old_version |-> 0, key |-> 0, val |-> 0, expire |-> 0]

ConstructDLRecord(ts, type, status, old, prev, next, key, val, expire) ==
  [ts |-> ts, type |-> type, status |-> status, prev |-> prev, next |-> next,
   old_version |-> old, key |-> key, val |-> val, expire |-> expire]

EmptyEntry == [s |-> "Empty", status |-> "None", ptr |-> 0]

\* the background thread that runs TryCleanAll, after the access threads
Background == NumWorkers + 1
Actors == Workers \cup {Background}

\* a thread that runs no cleaning call
NoJob == [at |-> "idle", limit |-> 0, left |-> 0, ts |-> 0, oldest_snapshot_ts |-> 0, i |-> 0,
          todo |-> <<>>, space_pending |-> <<>>, space_to_free |-> <<>>,
          refered |-> <<>>]

NoArgs == [call |-> "None", op |-> "None", key |-> 0, val |-> 0, ts |-> 0, ls |-> "None",
           est |-> "None", eptr |-> 0, space |-> 0, allowed |-> {}]

NoRet == [w |-> 0, op |-> "None", key |-> 0, s |-> "None", val |-> 0, existing |-> 0,
          written |-> 0, allowed |-> {}, mop |-> "None"]

Min(S) == CHOOSE x \in S : \A y \in S : x <= y

\* ------------------------------------------------------------- DLList
\* checkLinkage: both neighbours point back at r
Linked(R, r) ==
  /\ R[r].type # "None"
  /\ R[R[r].prev].next = r
  /\ R[R[r].next].prev = r

\* write record n (its prev and next already set) into the list
LinkRecord(R, a, n) ==
  [x \in Addrs |->
     IF x = a THEN n
     ELSE IF x = n.prev /\ x = n.next THEN [R[x] EXCEPT !.next = a, !.prev = a]
     ELSE IF x = n.prev THEN [R[x] EXCEPT !.next = a]
     ELSE IF x = n.next THEN [R[x] EXCEPT !.prev = a]
     ELSE R[x]]

PushFront(R, h, a, n) ==
  LinkRecord(R, a, [n EXCEPT !.prev = h, !.next = R[h].next])

PushBack(R, h, a, n) ==
  LinkRecord(R, a, [n EXCEPT !.prev = R[h].prev, !.next = h])

\* Replace old by the record n at a; a sole record is linked to itself
Replace(R, old, a, n) ==
  IF R[old].prev = old
    THEN [R EXCEPT ![a] = [n EXCEPT !.prev = a, !.next = a]]
    ELSE LinkRecord(R, a, [n EXCEPT !.prev = R[old].prev, !.next = R[old].next])

\* Update: a fresh record that inherits old's place and points back at it
Update(R, old, a, n) ==
  Replace(R, old, a, [n EXCEPT !.old_version = old])

\* Remove: the neighbours bypass r; r keeps its own fields
Remove(R, r) ==
  [x \in Addrs |->
     IF x = r THEN R[x]
     ELSE IF x = R[r].prev /\ x = R[r].next
       THEN [R[x] EXCEPT !.next = R[r].next, !.prev = R[r].prev]
     ELSE IF x = R[r].prev THEN [R[x] EXCEPT !.next = R[r].next]
     ELSE IF x = R[r].next THEN [R[x] EXCEPT !.prev = R[r].prev]
     ELSE R[x]]

\* the records met by following next from h until h comes back (at most n steps)
RECURSIVE Walk(_, _, _, _)
Walk(R, h, cur, n) ==
  IF cur = h \/ cur = 0 \/ n = 0 THEN <<>>
  ELSE <<cur>> \o Walk(R, h, R[cur].next, n - 1)

Elements(R, h) == Walk(R, h, R[h].next, MaxAddr)

SeqToSet(s) == {s[i] : i \in 1..Len(s)}


\* ------------------------------------------------------------- history
\* ref:    the reference map of the calls made so far (a call counts when made)
\* done:   the reference map of the calls that have returned
\* mono:   every write of the key carried a timestamp above the record it met
\* maxTs:  highest timestamp of the records written for the key
\* uaf:    a Get read a record whose space the allocator had back
\* early:  the cleaner gave back a record that an active snapshot could see
\* drained: a TryCleanAll pass batch-freed a batch of the pending queue
\* kept:   a purge that held the bucket lock found the entry at a newer record
InitHist == [ref |-> [k \in Keys |-> NotFoundVal],
             done |-> [k \in Keys |-> NotFoundVal],
             mono |-> [k \in Keys |-> TRUE],
             maxTs |-> [k \in Keys |-> 0],
             uaf |-> FALSE,
             early |-> FALSE,
             drained |-> FALSE,
             kept |-> FALSE]

\* a write call on k whose outcome in the reference map is v: running Gets of k
\* may answer with it from now on
NoteCall(A, k, v) ==
  [w \in Workers |->
     IF pc[w] \in {"get_status", "get_value"} /\ A[w].key = k
       THEN [A[w] EXCEPT !.allowed = @ \cup {v}]
       ELSE A[w]]

\* ------------------------------------------------------------- collaborators
\* HashTable::Lookup<reserve>: status, entry status and entry pointer
LookupStatus(k) == IF idx[k].s = "Ok" THEN "Ok" ELSE "NotFound"

\* Lookup<true> leaves a reserved entry behind where it found none
Reserve(k) == IF idx[k].s = "Ok" THEN idx ELSE [idx EXCEPT ![k].s = "Reserved"]

\* whether Lookup<true> may answer MemoryOverflow: only where it has to reserve
IndexFull(k) == IF idx[k].s = "Ok" THEN {FALSE} ELSE BOOLEAN

\* Allocator::Allocate: the next slot, or 0 (a SpaceEntry of size 0)
Allocate == IF nextAddr <= MaxAddr THEN nextAddr ELSE 0

\* Allocator::Free and BatchFree of the space entries in the sequence S
BatchFree(F, S) ==
  [a \in Addrs |-> F[a] + Cardinality({i \in 1..Len(S) : S[i] = a})]

\* VersionController::UpdatedOldestSnapshot at clock reading now
OldestSnapshot(now) ==
  Min({now} \cup {snap[w] : w \in {x \in Workers : snap[x] # 0}})

\* OldRecordsCleaner::Push of the record a write superseded: a superseded Normal
\* record is an OldDataRecord, a superseded tombstone an OldDeleteRecord
PushData(T, w, existing, ts) ==
  IF existing # 0 /\ rec[existing].status = "Normal"
    THEN [T EXCEPT ![w] = Append(@, [r |-> existing, ts |-> ts])]
    ELSE T

PushDelete(T, w, existing, k, ts) ==
  IF existing # 0 /\ rec[existing].status = "Outdated"
    THEN [T EXCEPT ![w] = Append(@, [r |-> existing, key |-> k, ts |-> ts])]
    ELSE T

\* ------------------------------------------------------------- HashList
Alive == ~destroyed /\ ~aborted

\* HashList::UpdateSize; a negative result stands for the wrapped size_t
UpdateSize(sz, delta) == sz + delta

\* a PrepareWrite that asks for space for every Delete that finds an entry
NeedsSpaceForTombstone(op, ls, est) ==
  IF op = "Delete" THEN ls = "Ok" ELSE TRUE

\* PrepareWrite lines 154-167: whether the write needs space
NeedsSpace(op, ls, est) ==
  IF op = "Delete" THEN ls = "Ok" /\ est # "Outdated" ELSE TRUE

\* a call that returns without having started a write
Return(w, op, k, status, existing) ==
  /\ pc' = [pc EXCEPT ![w] = "idle"]
  /\ ret' = [NoRet EXCEPT !.w = w, !.op = op, !.key = k, !.s = status,
                          !.existing = existing]
  /\ UNCHANGED <<sync, nextAddr, lock, args, hist>>

\* a call that has prepared its write and goes on to Write, holding the lock
Prepared(w, call, op, k, v, ts) ==
  /\ nextAddr' = nextAddr + 1
  /\ lock' = [lock EXCEPT ![k] = w]
  /\ pc' = [pc EXCEPT ![w] = "write"]
  /\ args' = [NoteCall(args, k, IF op = "Put" THEN v ELSE NotFoundVal)
                 EXCEPT ![w] =
       [NoArgs EXCEPT !.call = call, !.op = op, !.key = k, !.val = v, !.ts = ts,
          !.ls = LookupStatus(k), !.est = idx[k].status, !.eptr = idx[k].ptr,
          !.space = Allocate]]
  /\ hist' = [hist EXCEPT !.ref[k] = IF op = "Put" THEN v ELSE NotFoundVal]
  /\ ret' = NoRet

\* Put, lines 8-14: InitWriteArgs and PrepareWrite under the bucket lock of k;
\* full: the index has no room to reserve an entry
PutCall(w, k, v, ts) ==
  /\ Alive /\ pc[w] = "idle" /\ lock[k] = 0
  /\ \E full \in IndexFull(k) :
       IF LookupStatus(k) = "NotFound" /\ full
         THEN Return(w, "Put", k, "MemoryOverflow", 0) /\ UNCHANGED idx
       ELSE IF Allocate = 0
         THEN Return(w, "Put", k, "MemoryOverflow", 0) /\ idx' = Reserve(k)
       ELSE Prepared(w, "Put", "Put", k, v, ts) /\ idx' = Reserve(k)
  /\ UNCHANGED <<sync, rec, header, nameIdx, size_, freed, snap, oldest, tcData,
                 tcDel, gData, gDel, pending, last_clean_all_ts, destroyed, teardown,
                 aborted>>

\* Delete, lines 41-50: PrepareWrite, and no Write when no space was reserved
DeleteCall(w, k, ts) ==
  /\ Alive /\ pc[w] = "idle" /\ lock[k] = 0
  /\ IF ~NeedsSpace("Delete", LookupStatus(k), idx[k].status)
       THEN Return(w, "Delete", k, "Ok", 0)
     ELSE IF Allocate = 0
       THEN Return(w, "Delete", k, "MemoryOverflow", 0)
     ELSE Prepared(w, "Delete", "Delete", k, EmptyVal, ts)
  /\ UNCHANGED <<sync, rec, header, idx, nameIdx, size_, freed, snap, oldest, tcData,
                 tcDel, gData, gDel, pending, last_clean_all_ts, destroyed, teardown,
                 aborted>>

\* a Modify that answers Ok whatever modify_func said
ModifyStatusAlwaysOk(mop) == "Ok"

\* Modify lines 108-116: the status of a Modify that writes nothing
ModifyStatus(mop) == IF mop = "Abort" THEN "Abort" ELSE "Ok"

\* a Modify that returns without a write, after modify_func answered mop
ReturnModify(w, k, mop, status, existing) ==
  /\ pc' = [pc EXCEPT ![w] = "idle"]
  /\ ret' = [NoRet EXCEPT !.w = w, !.op = "Modify", !.key = k, !.s = status,
                          !.existing = existing, !.mop = mop]
  /\ UNCHANGED <<sync, nextAddr, lock, args, hist>>

\* Modify, lines 52-122, up to its call of Write; mop is what modify_func answers
ModifyCall(w, k, mop, v, ts) ==
  /\ Alive /\ pc[w] = "idle" /\ lock[k] = 0
  /\ \E full \in IndexFull(k) :
       LET existing == IF LookupStatus(k) = "Ok" THEN idx[k].ptr ELSE 0
       IN IF LookupStatus(k) = "NotFound" /\ full
            THEN Return(w, "Modify", k, "MemoryOverflow", 0) /\ UNCHANGED idx
          ELSE IF mop \in {"Abort", "Noop"}
            THEN ReturnModify(w, k, mop, ModifyStatus(mop), existing)
                 /\ idx' = Reserve(k)
          ELSE IF Allocate = 0
            THEN ReturnModify(w, k, mop, "MemoryOverflow", existing)
                 /\ idx' = Reserve(k)
          ELSE IF mop = "Write"
            THEN Prepared(w, "Modify", "Put", k, v, ts) /\ idx' = Reserve(k)
          ELSE Prepared(w, "Modify", "Delete", k, EmptyVal, ts)
               /\ idx' = Reserve(k)
  /\ UNCHANGED <<sync, rec, header, nameIdx, size_, freed, snap, oldest, tcData,
                 tcDel, gData, gDel, pending, last_clean_all_ts, destroyed, teardown,
                 aborted>>

\* a record constructed with the timestamp of the record it supersedes
NewRecordOldStamp(a) ==
  ConstructDLRecord(IF a.ls = "Ok" THEN rec[a.eptr].ts ELSE a.ts, "HashElem",
                    IF a.op = "Put" THEN "Normal" ELSE "Outdated",
                    0, 0, 0, a.key, a.val, 0)

\* the record putPrepared or deletePrepared constructs for the prepared write
NewRecord(a) ==
  ConstructDLRecord(a.ts, "HashElem",
                    IF a.op = "Put" THEN "Normal" ELSE "Outdated",
                    0, 0, 0, a.key, a.val, 0)

\* the kvdk_asserts of putPrepared (line 385) and deletePrepared (405-411)
AssertsHold(a) ==
  IF a.op = "Put"
    THEN a.ls = "Ok" => a.ts > rec[a.eptr].ts
    ELSE a.ls = "Ok" /\ a.est = "Normal" /\ a.ts > rec[a.eptr].ts

\* with the asserts compiled out the write runs on unless it has no record to
\* update (deletePrepared takes the record of an entry the lookup did not find)
RunsOn(a) == a.op = "Put" \/ a.ls = "Ok"

\* a putPrepared that updates Normal records only and pushes the new record
\* beside a tombstone
UsesUpdateOnNormal(a) == a.ls = "Ok" /\ a.est = "Normal"

\* putPrepared line 383: the existing record is updated whenever the lookup
\* found an entry; deletePrepared always updates
UsesUpdate(a) == a.ls = "Ok"

\* a putPrepared that never updates in place
putPreparedAlwaysPush(R, h, a, push_back) ==
  IF push_back THEN PushBack(R, h, a.space, NewRecord(a))
  ELSE PushFront(R, h, a.space, NewRecord(a))

\* the list after the write is linked: DLList::Update of the existing record,
\* or a push next to the header
putPrepared(R, h, a, push_back) ==
  IF UsesUpdate(a) THEN Update(R, a.eptr, a.space, NewRecord(a))
  ELSE IF push_back THEN PushBack(R, h, a.space, NewRecord(a))
  ELSE PushFront(R, h, a.space, NewRecord(a))

deletePrepared(R, a) == Update(R, a.eptr, a.space, NewRecord(a))

\* a Write that counts every Put, also one over a Normal record
SizeDeltaEveryPut(op, existing) ==
  IF op = "Put" THEN 1
  ELSE IF existing # 0 /\ rec[existing].status = "Normal" THEN -1 ELSE 0

\* Write lines 195-204: how the write changes Size()
SizeDelta(op, existing) ==
  IF op = "Put"
    THEN IF existing = 0 \/ rec[existing].status = "Outdated" THEN 1 ELSE 0
    ELSE IF existing # 0 /\ rec[existing].status = "Normal" THEN -1 ELSE 0

\* an Insert that leaves the entry of a found key at the record it had
InsertEntryStale(a) ==
  [s |-> "Ok", status |-> IF a.op = "Put" THEN "Normal" ELSE "Outdated",
   ptr |-> IF a.ls = "Ok" THEN a.eptr ELSE a.space]

\* HashTable::Insert of the written record (putPrepared 395, deletePrepared 418)
InsertEntry(a) ==
  [s |-> "Ok", status |-> IF a.op = "Put" THEN "Normal" ELSE "Outdated",
   ptr |-> a.space]

\* Write, lines 186-207, with putPrepared or deletePrepared: the splice into
\* the list, the index insert and UpdateSize; then the caller hands the
\* superseded record to the cleaner and releases the bucket lock
Write(w) ==
  /\ ~aborted /\ pc[w] = "write"
  /\ LET a == args[w]
         existing == IF a.ls = "Ok" THEN a.eptr ELSE 0
         delta == SizeDelta(a.op, existing)
     IN \/ /\ ~AssertsHold(a) \/ (delta < 0 /\ size_ < -delta)
           /\ aborted' = TRUE
           /\ ret' = NoRet
           /\ UNCHANGED <<rec, idx, size_, tcData, tcDel, lock, pc, args, hist>>
        \/ /\ AssertsHold(a) \/ RunsOn(a)
           /\ existing # 0 => Linked(rec, existing)  \* Update answers Fail until then
           /\ \E push_back \in IF a.op = "Put" /\ ~UsesUpdate(a)
                                   THEN BOOLEAN ELSE {FALSE} :
                rec' = IF a.op = "Put" THEN putPrepared(rec, header, a, push_back)
                       ELSE deletePrepared(rec, a)
           /\ idx' = [idx EXCEPT ![a.key] = InsertEntry(a)]
           /\ size_' = UpdateSize(size_, delta)
           /\ tcData' = PushData(tcData, w, existing, a.ts)
           /\ tcDel' = PushDelete(tcDel, w, existing, a.key, a.ts)
           /\ lock' = [lock EXCEPT ![a.key] = 0]
           /\ pc' = [pc EXCEPT ![w] = "idle"]
           /\ args' = [args EXCEPT ![w] = NoArgs]
           /\ ret' = [NoRet EXCEPT !.w = w, !.op = a.call, !.key = a.key,
                                   !.s = "Ok", !.existing = existing,
                                   !.written = a.space]
           /\ hist' = [hist EXCEPT
                 !.done[a.key] = hist.ref[a.key],
                 !.mono[a.key] = @ /\ (existing # 0 => a.ts > rec[existing].ts),
                 !.maxTs[a.key] = IF a.ts > @ THEN a.ts ELSE @]
           /\ UNCHANGED aborted
  /\ UNCHANGED <<sync, header, nameIdx, nextAddr, freed, clock, snap, oldest, gData,
                 gDel, pending, last_clean_all_ts, destroyed, teardown>>

\* the collections a write descriptor can be bound to by InitWriteArgs (line
\* 131): this list, or another list of the same engine
HLists == {"this", "other"}

\* a list that takes every descriptor for its own
RejectsNothing(hlist) == FALSE

\* lines 138 and 188: args.hlist != this
RejectsDescriptor(hlist) == hlist # "this"

\* PrepareWrite, lines 135-184, of a descriptor bound to hlist
PrepareWriteOf(w, hlist, op, k, v, ts) ==
  IF RejectsDescriptor(hlist)
    THEN /\ Alive /\ pc[w] = "idle"
         /\ Return(w, "PrepareWrite", k, "InvalidArgument", 0)
         /\ UNCHANGED <<rec, header, idx, nameIdx, size_, freed, snap, oldest,
                        tcData, tcDel, gData, gDel, pending, last_clean_all_ts,
                        destroyed, teardown, aborted>>
    ELSE IF op = "Put" THEN PutCall(w, k, v, ts)
    ELSE DeleteCall(w, k, ts)

\* Write, lines 186-207, called by a worker that has a write prepared here,
\* with a descriptor bound to hlist: its own, or one prepared on another list
WriteOf(w, hlist) ==
  IF RejectsDescriptor(hlist)
    THEN /\ ~aborted /\ pc[w] = "write"
         /\ ret' = [NoRet EXCEPT !.w = w, !.op = "Write", !.key = args[w].key,
                                 !.s = "InvalidArgument"]
         /\ UNCHANGED <<sync, rec, header, idx, nameIdx, size_, nextAddr, freed,
                        clock, snap, oldest, lock, pc, args, tcData, tcDel,
                        gData, gDel, pending, last_clean_all_ts, destroyed, teardown,
                        aborted, hist>>
    ELSE Write(w)

\* ------------------------------------------------------------- Get
\* what an uninterrupted Get(k) answers in the current state (lines 20-39)
Get(k) ==
  IF LookupStatus(k) # "Ok" \/ idx[k].status = "Outdated" THEN NotFoundVal
  ELSE IF rec[idx[k].ptr].status = "Outdated" THEN NotFoundVal
  ELSE rec[idx[k].ptr].val

\* Get lines 24-25: the answer is NotFound without a look at the record
MissesIndex(k) == LookupStatus(k) # "Ok" \/ idx[k].status = "Outdated"

\* the caller takes its snapshot; Get lines 21-29: the lock-free index lookup
GetLookup(w, k) ==
  /\ Alive /\ pc[w] = "idle"
  /\ IF MissesIndex(k)
       THEN /\ ret' = [NoRet EXCEPT !.w = w, !.op = "Get", !.key = k,
                          !.s = "NotFound",
                          !.allowed = {hist.done[k], hist.ref[k]}]
            /\ UNCHANGED <<pc, snap, args, clock>>
       ELSE /\ clock < MaxTs
            /\ clock' = clock + 1
            /\ pc' = [pc EXCEPT ![w] = "get_status"]
            /\ snap' = [snap EXCEPT ![w] = clock + 1]
            /\ args' = [args EXCEPT ![w] =
                 [NoArgs EXCEPT !.op = "Get", !.key = k, !.eptr = idx[k].ptr,
                    !.allowed = {hist.done[k], hist.ref[k]}]]
            /\ ret' = NoRet
  /\ UNCHANGED <<sync, rec, header, idx, nameIdx, size_, nextAddr, freed, oldest,
                 lock, tcData, tcDel, gData, gDel, pending, last_clean_all_ts,
                 destroyed, teardown, aborted, hist>>

\* Get line 33: the status of the record taken from the index; returned space
\* holds anything
GetStatus(w) ==
  /\ ~aborted /\ pc[w] = "get_status"
  /\ LET p == args[w].eptr IN
     \E st \in {"Normal", "Outdated"} :
       /\ freed[p] = 0 => st = rec[p].status
       /\ hist' = [hist EXCEPT !.uaf = @ \/ freed[p] > 0]
       /\ IF st = "Outdated"
            THEN /\ pc' = [pc EXCEPT ![w] = "idle"]
                 /\ ret' = [NoRet EXCEPT !.w = w, !.op = "Get",
                               !.key = args[w].key,
                               !.s = "NotFound", !.existing = p,
                               !.allowed = args[w].allowed]
                 /\ snap' = [snap EXCEPT ![w] = 0]
                 /\ args' = [args EXCEPT ![w] = NoArgs]
            ELSE /\ pc' = [pc EXCEPT ![w] = "get_value"]
                 /\ ret' = NoRet
                 /\ UNCHANGED <<snap, args>>
  /\ UNCHANGED <<sync, rec, header, idx, nameIdx, size_, nextAddr, freed, clock,
                 oldest, lock, tcData, tcDel, gData, gDel, pending,
                 last_clean_all_ts, destroyed, teardown, aborted>>

\* Get lines 36-37: the value is copied out; the caller drops its snapshot
GetValue(w) ==
  /\ ~aborted /\ pc[w] = "get_value"
  /\ LET p == args[w].eptr IN
     \E v \in Vals :
       /\ freed[p] = 0 => v = rec[p].val
       /\ hist' = [hist EXCEPT !.uaf = @ \/ freed[p] > 0]
       /\ ret' = [NoRet EXCEPT !.w = w, !.op = "Get", !.key = args[w].key,
                     !.s = "Ok", !.val = v,
                     !.existing = p, !.allowed = args[w].allowed]
  /\ pc' = [pc EXCEPT ![w] = "idle"]
  /\ snap' = [snap EXCEPT ![w] = 0]
  /\ args' = [args EXCEPT ![w] = NoArgs]
  /\ UNCHANGED <<sync, rec, header, idx, nameIdx, size_, nextAddr, freed, clock,
                 oldest, lock, tcData, tcDel, gData, gDel, pending,
                 last_clean_all_ts, destroyed, teardown, aborted>>

\* ------------------------------------------------------------- SetExpireTime
\* a new header that does not point back at the header it replaces
NewHeaderWithoutOldVersion(R, h, e, ts) ==
  ConstructDLRecord(ts, "HashHeader", "Normal", 0, R[h].prev, R[h].next,
                    R[h].key, R[h].val, e)

\* the header record SetExpireTime constructs, lines 219-223
NewHeader(R, h, e, ts) ==
  ConstructDLRecord(ts, "HashHeader", "Normal", h, R[h].prev, R[h].next,
                    R[h].key, R[h].val, e)

\* a SetExpireTime that constructs the new header and leaves out the Replace
ConstructHeaderOnly(R, h, space, e, ts) ==
  [R EXCEPT ![space] = NewHeader(R, h, e, ts)]

\* lines 219-224: the new header is constructed and replaces the old one
ReplaceHeader(R, h, space, e, ts) ==
  Replace(R, h, space, NewHeader(R, h, e, ts))

\* a SetExpireTime that names the header as existing_record before it knows
\* whether it has space for the new one
ExistingHeaderAlways(space, h) == h

\* lines 215-226: existing_record is the old header once it has been replaced,
\* and stays null when the allocation failed
ExistingHeader(space, h) == IF space = 0 THEN 0 ELSE h

\* lines 209-229, and the caller's hand-over of existing_record to the cleaner
SetExpireTime(w, e, ts) ==
  /\ Alive /\ pc[w] = "idle"
  /\ LET space == Allocate
         existing == ExistingHeader(space, header)
     IN /\ IF space = 0
             THEN /\ ret' = [NoRet EXCEPT !.w = w, !.op = "SetExpireTime",
                               !.s = "MemoryOverflow", !.existing = existing]
                  /\ UNCHANGED <<rec, header, nextAddr>>
             ELSE /\ rec' = ReplaceHeader(rec, header, space, e, ts)
                  /\ header' = space
                  /\ nextAddr' = nextAddr + 1
                  /\ ret' = [NoRet EXCEPT !.w = w, !.op = "SetExpireTime",
                               !.s = "Ok", !.existing = existing,
                               !.written = space]
        /\ tcData' = PushData(tcData, w, existing, ts)
  /\ UNCHANGED <<sync, idx, nameIdx, size_, freed, snap, oldest, lock, pc, args,
                 tcDel, gData, gDel, pending, last_clean_all_ts, destroyed, teardown,
                 aborted, hist>>

\* ------------------------------------------------------------- OldRecordsCleaner
\* a pass that fetches the cache of the first worker only
ConcatFirstCache(T, w) == IF w > 1 THEN <<>> ELSE T[w]

RECURSIVE Concat(_, _)
Concat(T, w) == IF w > NumWorkers THEN <<>> ELSE T[w] \o Concat(T, w + 1)

Spaces(Q) == [i \in 1..Len(Q) |-> Q[i].r]

\* TryCleanAll lines 65 and 82: the record may be purged in this pass
Eligible(e, oldest_snapshot_ts) == e.ts <= oldest_snapshot_ts

\* a pass that forgets the records it cannot purge yet
ReferedNone(Q, oldest_snapshot_ts) == <<>>

\* TryCleanAll lines 68-70 and 86-88: the records that can't be freed this time
Refered(Q, oldest_snapshot_ts) ==
  SelectSeq(Q, LAMBDA e : ~Eligible(e, oldest_snapshot_ts))

\* TryCleanCachedOldRecords lines 147 and 160: the front record may be purged
CachedEligible(e, bound_ts) == e.ts < bound_ts

\* TryCleanAll line 107: the pending batch may be freed
BatchEligible(b, oldest_snapshot_ts) == b.free_ts < oldest_snapshot_ts

\* purgeOldDataRecord and purgeOldDeleteRecord abort on a record of another kind
DataKind(e) == rec[e.r].status = "Normal"
DeleteKind(e) == rec[e.r].status = "Outdated"

\* purgeOldDeleteRecord lines 204-210: the entry is cleared when it still
\* points at the purged record, under the bucket lock of its key
Clears(e) == idx[e.key].s = "Ok" /\ idx[e.key].ptr = e.r

ClearEntries(Q) ==
  [k \in Keys |->
     IF \E i \in 1..Len(Q) : Q[i].key = k /\ Clears(Q[i])
       THEN EmptyEntry ELSE idx[k]]

LocksFree(Q) == \A i \in 1..Len(Q) : Clears(Q[i]) => lock[Q[i].key] = 0

\* an active snapshot is not later than the writer that retired the record
SeenBySnapshot(e) == \E w \in Workers : snap[w] # 0 /\ snap[w] <= e.ts

AnySeen(Q) == \E i \in 1..Len(Q) : SeenBySnapshot(Q[i])

\* a drain loop that stops after the first batch
HeadCountOne(P, oldest_snapshot_ts) ==
  IF P # <<>> /\ BatchEligible(Head(P), oldest_snapshot_ts) THEN 1 ELSE 0

\* how many batches at the head of the pending queue the pass frees
RECURSIVE HeadCount(_, _)
HeadCount(P, oldest_snapshot_ts) ==
  IF P # <<>> /\ BatchEligible(Head(P), oldest_snapshot_ts)
    THEN 1 + HeadCount(Tail(P), oldest_snapshot_ts)
    ELSE 0

RECURSIVE BatchSpaces(_, _)
BatchSpaces(P, n) ==
  IF n = 0 THEN <<>> ELSE Head(P).entries \o BatchSpaces(Tail(P), n - 1)

\* a batch whose free_ts is a clock reading that is not later than any snapshot
PendingFreeBatchStale(entries, now) == [entries |-> entries, free_ts |-> 0]

\* TryCleanAll lines 97-100: the spaces of the tombstones purged in this pass,
\* stamped with the clock reading taken after the purge
PendingFreeBatch(entries, now) == [entries |-> entries, free_ts |-> now]

\* TryCleanAll, lines 28-135, run by the background thread; the clock is
\* followed up to the reading horizon
TryCleanAllBefore(horizon) ==
  /\ ~aborted
  /\ LET ts == clock + 1
         oldest_snapshot_ts == OldestSnapshot(clock + 2)
         hot == {w \in Workers : Len(tcDel[w]) > DeleteBacklog}
         data == gData \o Concat(tcData, 1)
         dels == gDel \o
                 Concat([w \in Workers |-> IF w \in hot THEN tcDel[w] ELSE <<>>], 1)
         dataFree == SelectSeq(data, LAMBDA e : Eligible(e, oldest_snapshot_ts))
         dataKept == Refered(data, oldest_snapshot_ts)
         delFree == SelectSeq(dels, LAMBDA e : Eligible(e, oldest_snapshot_ts))
         delKept == Refered(dels, oldest_snapshot_ts)
         ticks == IF delFree # <<>> THEN 3 ELSE 2
         queued == IF delFree # <<>>
                     THEN Append(pending,
                                 PendingFreeBatch(Spaces(delFree), clock + 3))
                     ELSE pending
         n == HeadCount(queued, oldest_snapshot_ts)
     IN /\ clock + ticks <= horizon
        /\ LocksFree(delFree)
        /\ clock' = clock + ticks
        /\ oldest' = oldest_snapshot_ts
        /\ last_clean_all_ts' = ts
        /\ tcData' = [w \in Workers |-> <<>>]
        /\ tcDel' = [w \in Workers |-> IF w \in hot THEN <<>> ELSE tcDel[w]]
        /\ IF \/ \E i \in 1..Len(dataFree) : ~DataKind(dataFree[i])
              \/ \E i \in 1..Len(delFree) : ~DeleteKind(delFree[i])
             THEN /\ aborted' = TRUE
                  /\ UNCHANGED <<idx, freed, pending, gData, gDel, hist>>
             ELSE /\ idx' = ClearEntries(delFree)
                  /\ freed' = BatchFree(freed,
                                 BatchSpaces(queued, n) \o Spaces(dataFree))
                  /\ pending' = SubSeq(queued, n + 1, Len(queued))
                  /\ gData' = dataKept
                  /\ gDel' = delKept
                  /\ hist' = [hist EXCEPT
                        !.early = @ \/ AnySeen(dataFree) \/ AnySeen(delFree),
                        !.drained = @ \/ n > 0]
                  /\ UNCHANGED aborted
  /\ ret' = NoRet
  /\ UNCHANGED <<sync, rec, header, nameIdx, size_, nextAddr, snap, lock, pc, args,
                 destroyed, teardown>>

TryCleanAll == TryCleanAllBefore(MaxTs)

\* how many records at the front of the cache the loop purges
RECURSIVE FrontCount(_, _, _)
FrontCount(Q, bound_ts, limit) ==
  IF Q # <<>> /\ CachedEligible(Head(Q), bound_ts) /\ limit > 0
    THEN 1 + FrontCount(Tail(Q), bound_ts, limit - 1)
    ELSE 0

\* TryCleanCachedOldRecords, lines 137-169, run by worker w on its own cache;
\* upd: this call is the one in kUpdateSnapshotRound that refreshes the floor
TryCleanCachedOldRecords(w, num_limit_clean, upd) ==
  /\ ~aborted /\ pc[w] = "idle"
  /\ Len(tcData[w]) > 0 \/ Len(tcDel[w]) > 0
  /\ upd => clock < MaxTs
  /\ LET oldest_refer_ts == IF upd THEN OldestSnapshot(clock + 1) ELSE oldest
         nd == FrontCount(tcDel[w], last_clean_all_ts, num_limit_clean)
         na == FrontCount(tcData[w], oldest_refer_ts, num_limit_clean)
         delFree == SubSeq(tcDel[w], 1, nd)
         dataFree == SubSeq(tcData[w], 1, na)
     IN /\ LocksFree(delFree)
        /\ clock' = IF upd THEN clock + 1 ELSE clock
        /\ oldest' = oldest_refer_ts
        /\ IF \/ \E i \in 1..nd : ~DeleteKind(delFree[i])
              \/ \E i \in 1..na : ~DataKind(dataFree[i])
             THEN /\ aborted' = TRUE
                  /\ UNCHANGED <<idx, freed, tcData, tcDel, hist>>
             ELSE /\ idx' = ClearEntries(delFree)
                  /\ freed' = BatchFree(freed, Spaces(delFree) \o Spaces(dataFree))
                  /\ tcDel' = [tcDel EXCEPT ![w] = SubSeq(@, nd + 1, Len(@))]
                  /\ tcData' = [tcData EXCEPT ![w] = SubSeq(@, na + 1, Len(@))]
                  /\ hist' = [hist EXCEPT
                        !.early = @ \/ AnySeen(dataFree) \/ AnySeen(delFree)]
                  /\ UNCHANGED aborted
  /\ ret' = NoRet
  /\ UNCHANGED <<sync, rec, header, nameIdx, size_, nextAddr, snap, lock, pc, args,
                 gData, gDel, pending, last_clean_all_ts, destroyed, teardown>>

\* ------------------------------------------------------------- Destroy
RECURSIVE RemoveAll(_, _)
RemoveAll(R, S) ==
  IF S = <<>> THEN R
  ELSE IF Linked(R, Head(S)) THEN RemoveAll(Remove(R, Head(S)), Tail(S))
  ELSE RemoveAll(R, Tail(S))

\* the old_version chain below record a, newest first
RECURSIVE OldVersions(_, _)
OldVersions(a, n) ==
  IF a = 0 \/ n = 0 THEN <<>>
  ELSE <<a>> \o OldVersions(rec[a].old_version, n - 1)

RECURSIVE ChainsOf(_)
ChainsOf(S) ==
  IF S = <<>> THEN <<>>
  ELSE OldVersions(rec[Head(S)].old_version, MaxAddr) \o ChainsOf(Tail(S))

\* the records Destroy and DestroyAll unlink: header.next, ..., the header
Walked == Elements(rec, header) \o <<header>>

\* Destroy frees the walked records, DestroyAll their old versions as well
DestroyFrees(all) == IF all THEN ChainsOf(Walked) \o Walked ELSE Walked

\* Destroy (lines 278-320) and DestroyAll (322-372), while no call is running
DestroyList(all) ==
  /\ Alive /\ \A w \in Workers : pc[w] = "idle"
  /\ rec' = RemoveAll(rec, Walked)
  /\ idx' = [k \in Keys |->
               IF idx[k].s = "Ok" /\ idx[k].ptr \in SeqToSet(Walked)
                    /\ rec[idx[k].ptr].key = k
                 THEN EmptyEntry ELSE idx[k]]
  /\ nameIdx' = FALSE
  /\ freed' = BatchFree(freed, DestroyFrees(all))
  /\ destroyed' = TRUE
  /\ ret' = NoRet
  /\ UNCHANGED <<sync, header, size_, nextAddr, clock, snap, oldest, lock, pc, args,
                 tcData, tcDel, gData, gDel, pending, last_clean_all_ts,
                 aborted, hist, teardown>>

Destroy == DestroyList(FALSE)

DestroyAll == DestroyList(TRUE)

\* the do-while loop of Destroy and DestroyAll, one iteration at a time, for
\* callers that destroy a list while writes prepared on it are completing
NoTeardown == [on |-> FALSE, all |-> FALSE, header |-> 0, to_destroy |-> 0,
               to_free |-> <<>>]

\* lines 279-281 and 323-326: the header is read once, to_free is empty
DestroyBegin(all) ==
  /\ Alive /\ ~teardown.on
  /\ teardown' = [NoTeardown EXCEPT !.on = TRUE, !.all = all, !.header = header]
  /\ ret' = NoRet
  /\ UNCHANGED <<sync, rec, header, idx, nameIdx, size_, nextAddr, freed, clock, snap,
                 oldest, lock, pc, args, tcData, tcDel, gData, gDel, pending,
                 last_clean_all_ts, destroyed, aborted, hist>>

\* lines 284 and 328: to_destroy is the record at header->next
DestroyRead ==
  /\ ~aborted /\ teardown.on /\ teardown.to_destroy = 0
  /\ teardown' = [teardown EXCEPT !.to_destroy = rec[teardown.header].next]
  /\ ret' = NoRet
  /\ UNCHANGED <<sync, rec, header, idx, nameIdx, size_, nextAddr, freed, clock, snap,
                 oldest, lock, pc, args, tcData, tcDel, gData, gDel, pending,
                 last_clean_all_ts, destroyed, aborted, hist>>

\* lines 310-311 and 352-363: the space entries one iteration adds to to_free
Batched(ok, all, d) ==
  IF ~ok THEN <<>>
  ELSE IF all THEN OldVersions(rec[d].old_version, MaxAddr) \o <<d>>
  ELSE <<d>>

\* lines 286-317 and 330-370: the rest of the iteration under the bucket lock
\* of to_destroy, and the BatchFree after the loop when to_destroy was the
\* header
DestroyRemove ==
  /\ ~aborted /\ teardown.on /\ teardown.to_destroy # 0
  /\ LET d == teardown.to_destroy
         h == teardown.header
         k == rec[d].key
         ok == Linked(rec, d)
         batch == teardown.to_free \o Batched(ok, teardown.all, d)
         flush == Len(batch) > kMaxCachedOldRecords
     IN /\ d # h => lock[k] = 0
        /\ rec' = IF ok THEN Remove(rec, d) ELSE rec
        /\ idx' = IF ok /\ rec[d].type = "HashElem" /\ idx[k].s = "Ok"
                       /\ idx[k].ptr = d
                    THEN [idx EXCEPT ![k] = EmptyEntry] ELSE idx
        /\ nameIdx' = IF ok /\ rec[d].type = "HashHeader" /\ header = d
                        THEN FALSE ELSE nameIdx
        /\ freed' = IF d = h \/ flush THEN BatchFree(freed, batch) ELSE freed
        /\ teardown' = IF d = h THEN NoTeardown
                       ELSE [teardown EXCEPT !.to_destroy = 0,
                               !.to_free = IF flush THEN <<>> ELSE batch]
        /\ destroyed' = (destroyed \/ d = h)
  /\ ret' = NoRet
  /\ UNCHANGED <<sync, header, size_, nextAddr, clock, snap, oldest, lock, pc, args,
                 tcData, tcDel, gData, gDel, pending, last_clean_all_ts,
                 aborted, hist>>

\* ------------------------------------------------------------- specification
Init ==
  /\ rec = [a \in Addrs |->
              IF a = 1
                THEN ConstructDLRecord(0, "HashHeader", "Normal", 0, 1, 1, 0, 0, 0)
                ELSE NullRec]
  /\ header = 1
  /\ idx = [k \in Keys |-> EmptyEntry]
  /\ nameIdx = TRUE
  /\ size_ = 0
  /\ nextAddr = 2
  /\ freed = [a \in Addrs |-> 0]
  /\ clock = 0
  /\ snap = [w \in Workers |-> 0]
  /\ oldest = 0
  /\ lock = [k \in Keys |-> 0]
  /\ pc = [w \in Workers |-> "idle"]
  /\ args = [w \in Workers |-> NoArgs]
  /\ ret = NoRet
  /\ tcData = [w \in Workers |-> <<>>]
  /\ tcDel = [w \in Workers |-> <<>>]
  /\ gData = <<>>
  /\ gDel = <<>>
  /\ pending = <<>>
  /\ last_clean_all_ts = 0
  /\ destroyed = FALSE
  /\ aborted = FALSE
  /\ hist = InitHist
  /\ teardown = NoTeardown
  /\ cleaning_lock_ = {}
  /\ old_records_lock = [w \in Workers |-> 0]
  /\ job = [a \in Actors |-> NoJob]

\* the engine stamps every write with a fresh reading of the clock; a reading
\* that no record keeps is not counted
Tick(used) == clock < MaxTs /\ clock' = IF used THEN clock + 1 ELSE clock

EnginePut == \E w \in Workers, k \in Keys, v \in Vals :
               PutCall(w, k, v, clock + 1) /\ Tick(pc'[w] = "write")

EngineDelete == \E w \in Workers, k \in Keys :
                  DeleteCall(w, k, clock + 1) /\ Tick(pc'[w] = "write")

EngineModify ==
  \E w \in Workers, k \in Keys, mop \in {"Write", "Delete", "Abort", "Noop"} :
    \E v \in IF mop = "Write" THEN Vals ELSE {EmptyVal} :
      ModifyCall(w, k, mop, v, clock + 1) /\ Tick(pc'[w] = "write")

EngineExpire == \E w \in Workers, e \in 1..MaxExpire :
                  SetExpireTime(w, e, clock + 1) /\ Tick(ret'.s = "Ok")

Commit == \E w \in Workers : Write(w)

Read == \E w \in Workers :
          \/ \E k \in Keys : GetLookup(w, k)
          \/ GetStatus(w)
          \/ GetValue(w)

CleanCached == \E w \in Workers, n \in 1..MaxLimit, upd \in BOOLEAN :
                 TryCleanCachedOldRecords(w, n, upd)

Next ==
  \/ EnginePut
  \/ EngineDelete
  \/ EngineModify
  \/ EngineExpire
  \/ Commit
  \/ Read
  \/ TryCleanAll
  \/ CleanCached
  \/ Destroy
  \/ DestroyAll

Spec == Init /\ [][Next]_vars


\* callers that pass any timestamp, as the interface of HashList allows; the
\* calls that go on to write
AnyPut == \E w \in Workers, k \in Keys, v \in Vals, ts \in 1..MaxStamp :
            PutCall(w, k, v, ts) /\ pc'[w] = "write" /\ UNCHANGED clock

AnyDelete == \E w \in Workers, k \in Keys, ts \in 1..MaxStamp :
               DeleteCall(w, k, ts) /\ pc'[w] = "write" /\ UNCHANGED clock

AnyModify ==
  \E w \in Workers, k \in Keys, mop \in {"Write", "Delete"} :
    \E v \in IF mop = "Write" THEN Vals ELSE {EmptyVal}, ts \in 1..MaxStamp :
      ModifyCall(w, k, mop, v, ts) /\ pc'[w] = "write" /\ UNCHANGED clock

NextAnyTs ==
  \/ AnyPut
  \/ AnyDelete
  \/ AnyModify
  \/ Commit

SpecAnyTs == Init /\ [][NextAnyTs]_vars

\* the write path alone: writers stamped by the engine, and header rewrites
NextWrite ==
  \/ EnginePut
  \/ EngineDelete
  \/ EngineModify
  \/ EngineExpire
  \/ Commit

SpecWrite == Init /\ [][NextWrite]_vars

\* the write path with every worker scheduled: a worker inside putPrepared or
\* deletePrepared keeps running
SpecWriteFair == SpecWrite /\ \A w \in Workers : WF_vars(Write(w))

\* callers that hand a list descriptors of any binding
PrepareAny ==
  \E w \in Workers, hlist \in HLists, op \in {"Put", "Delete"}, k \in Keys :
    \E v \in IF op = "Put" THEN Vals ELSE {EmptyVal} :
      PrepareWriteOf(w, hlist, op, k, v, clock + 1) /\ Tick(pc'[w] = "write")

WriteAny == \E w \in Workers, hlist \in HLists : WriteOf(w, hlist)

NextForeign ==
  \/ PrepareAny
  \/ WriteAny
  \/ EngineModify
  \/ EngineExpire

SpecForeign == Init /\ [][NextForeign]_vars

\* calls that go on to write: the index and the arena have room
StartPut == \E w \in Workers, k \in Keys, v \in Vals :
              PutCall(w, k, v, clock + 1) /\ Tick(TRUE) /\ pc'[w] = "write"

StartDelete == \E w \in Workers, k \in Keys :
                 DeleteCall(w, k, clock + 1) /\ Tick(TRUE) /\ pc'[w] = "write"

\* readers racing writers, no reclamation
NextRead ==
  \/ StartPut
  \/ StartDelete
  \/ Commit
  \/ Read

SpecRead == Init /\ [][NextRead]_vars

\* Gets that find a record to read
ReadRecord == \E w \in Workers :
                \/ \E k \in Keys : GetLookup(w, k) /\ pc'[w] = "get_status"
                \/ GetStatus(w)
                \/ GetValue(w)

\* writers, readers and every reclamation path
NextClean ==
  \/ StartPut
  \/ StartDelete
  \/ Commit
  \/ ReadRecord
  \/ TryCleanAll
  \/ CleanCached
  \/ Destroy
  \/ DestroyAll

SpecClean == Init /\ [][NextClean]_vars

\* a list destroyed while its writers complete, every thread scheduled
BeginDestroy == \E all \in BOOLEAN : DestroyBegin(all)

NextDestroy ==
  \/ StartPut
  \/ StartDelete
  \/ Commit
  \/ BeginDestroy
  \/ DestroyRead
  \/ DestroyRemove

SpecDestroy ==
  /\ Init /\ [][NextDestroy]_vars
  /\ WF_vars(DestroyRead) /\ WF_vars(DestroyRemove)
  /\ \A w \in Workers : WF_vars(Write(w))

\* a list destroyed after its last write returned
NextDestroyAlone ==
  \/ StartPut /\ ~teardown.on
  \/ StartDelete /\ ~teardown.on
  \/ Commit
  \/ BeginDestroy /\ \A w \in Workers : pc[w] = "idle"
  \/ DestroyRead
  \/ DestroyRemove

SpecDestroyAlone ==
  /\ Init /\ [][NextDestroyAlone]_vars
  /\ WF_vars(DestroyRead) /\ WF_vars(DestroyRemove)
  /\ \A w \in Workers : WF_vars(Write(w))

\* ------------------------------------------------------------- cleaning_lock_
\* TryCleaningLock, hash_list.hpp line 157, called by thread a: try_lock takes
\* the lock when no thread holds it and answers whether it did
TryCleaningLock(a) ==
  /\ ~aborted /\ a \notin cleaning_lock_
  /\ IF cleaning_lock_ = {}
       THEN /\ cleaning_lock_' = {a}
            /\ ret' = [NoRet EXCEPT !.w = a, !.op = "TryCleaningLock",
                                    !.s = "true"]
       ELSE /\ UNCHANGED cleaning_lock_
            /\ ret' = [NoRet EXCEPT !.w = a, !.op = "TryCleaningLock",
                                    !.s = "false"]
  /\ UNCHANGED <<old_records_lock, job, rec, header, idx, nameIdx, size_,
                 nextAddr, freed, clock, snap, oldest, lock, pc, args, tcData,
                 tcDel, gData, gDel, pending, last_clean_all_ts, destroyed,
                 aborted, hist, teardown>>

\* ReleaseCleaningLock, hash_list.hpp line 159, called by the holder once the
\* maintenance it took the lock for has returned
ReleaseCleaningLock(a) ==
  /\ ~aborted /\ a \in cleaning_lock_ /\ ~teardown.on
  /\ cleaning_lock_' = cleaning_lock_ \ {a}
  /\ ret' = NoRet
  /\ UNCHANGED <<old_records_lock, job, rec, header, idx, nameIdx, size_,
                 nextAddr, freed, clock, snap, oldest, lock, pc, args, tcData,
                 tcDel, gData, gDel, pending, last_clean_all_ts, destroyed,
                 aborted, hist, teardown>>

\* the threads of the engine that destroy collections: the background thread
\* and one more, none of them an access thread
Maintainers == {Background, Background + 1}

TryLockAny == \E a \in Maintainers : TryCleaningLock(a)

ReleaseAny == \E a \in Maintainers : ReleaseCleaningLock(a)

\* the engine destroys the list under the cleaning lock it has taken
DestroyUnderLock == cleaning_lock_ # {} /\ BeginDestroy

\* a list destroyed under its cleaning lock while its writers complete and
\* the workers clean their caches
NextMaintenance ==
  \/ StartPut
  \/ StartDelete
  \/ Commit
  \/ TryLockAny
  \/ ReleaseAny
  \/ DestroyUnderLock
  \/ DestroyRead
  \/ DestroyRemove
  \/ CleanCached

SpecMaintenance == Init /\ [][NextMaintenance]_vars

\* ------------------------------------------------------------- the cleaner alone
\* A write somewhere in the engine supersedes a record: the superseded record
\* lies in the arena, linked in no list, and worker w hands it to the cleaner
\* with the timestamp of that write (Push, lines 10-26).
Retire(w, k, status) ==
  /\ ~aborted /\ pc[w] = "idle"
  /\ Allocate # 0 /\ clock < MaxCleanerTs
  /\ LET a == Allocate
         ts == clock + 1
     IN /\ rec' = [rec EXCEPT ![a] =
                     ConstructDLRecord(clock, "HashElem", status, 0, 0, 0, k,
                                       EmptyVal, 0)]
        /\ nextAddr' = nextAddr + 1
        /\ clock' = ts
        /\ IF status = "Normal"
             THEN /\ tcData' = [tcData EXCEPT
                                 ![w] = Append(@, [r |-> a, ts |-> ts])]
                  /\ UNCHANGED tcDel
             ELSE /\ tcDel' = [tcDel EXCEPT
                                ![w] = Append(@, [r |-> a, key |-> k, ts |-> ts])]
                  /\ UNCHANGED tcData
  /\ ret' = NoRet
  /\ UNCHANGED <<sync, header, idx, nameIdx, size_, freed, snap, oldest, lock, pc,
                 args, gData, gDel, pending, last_clean_all_ts, destroyed,
                 aborted, hist, teardown>>

\* VersionController: worker w takes a snapshot of the current reading
GetSnapshot(w) ==
  /\ ~aborted /\ pc[w] = "idle" /\ snap[w] = 0
  /\ clock < MaxCleanerTs
  /\ snap' = [snap EXCEPT ![w] = clock + 1]
  /\ clock' = clock + 1
  /\ ret' = NoRet
  /\ UNCHANGED <<sync, rec, header, idx, nameIdx, size_, nextAddr, freed, oldest,
                 lock, pc, args, tcData, tcDel, gData, gDel, pending,
                 last_clean_all_ts, destroyed, aborted, hist, teardown>>

\* VersionController: worker w releases its snapshot
ReleaseSnapshot(w) ==
  /\ ~aborted /\ pc[w] = "idle" /\ snap[w] # 0
  /\ snap' = [snap EXCEPT ![w] = 0]
  /\ ret' = NoRet
  /\ UNCHANGED <<sync, rec, header, idx, nameIdx, size_, nextAddr, freed, clock,
                 oldest, lock, pc, args, tcData, tcDel, gData, gDel, pending,
                 last_clean_all_ts, destroyed, aborted, hist, teardown>>

\* which bucket the key of the record hashes to is the same to the queues
RetireOld == \E w \in Workers, status \in {"Normal", "Outdated"} :
               Retire(w, 1, status)

TakeSnapshot == \E w \in Workers : GetSnapshot(w)

DropSnapshot == \E w \in Workers : ReleaseSnapshot(w)

CleanAllLate == TryCleanAllBefore(MaxCleanerTs)

\* the cleaner fed by the engine's workers, snapshots taken and released
NextCleaner ==
  \/ RetireOld /\ clock' <= MaxQueueTs
  \/ TakeSnapshot /\ clock' <= MaxQueueTs
  \/ DropSnapshot
  \/ TryCleanAllBefore(MaxQueueTs)
  \/ CleanCached

SpecCleaner == Init /\ [][NextCleaner]_vars

RetireTombstone == \E w \in Workers : Retire(w, 1, "Outdated")

\* tombstones on their way through the pending queue
NextPending ==
  \/ RetireTombstone
  \/ TakeSnapshot
  \/ DropSnapshot
  \/ CleanAllLate

SpecPending == Init /\ [][NextPending]_vars

\* ------------------------------------------------------------- the cleaner, lock by lock
\* the clock readings and the arena slots that the calls under way will take
OwedTicks == Cardinality({w \in Workers : pc[w] = "retire"})
               + (IF job[Background].at # "idle" THEN 1 ELSE 0)
OwedSlots == Cardinality({w \in Workers : pc[w] = "retire"})

\* The engine's caller takes the bucket lock of key k for a write (a write
\* begins only while the clock and the arena have room for it).
LockBucket(w, k) ==
  /\ ~aborted /\ pc[w] = "idle" /\ lock[k] = 0
  /\ nextAddr + OwedSlots <= MaxAddr
  /\ clock + OwedTicks < MaxQueueTs
  /\ lock' = [lock EXCEPT ![k] = w]
  /\ pc' = [pc EXCEPT ![w] = "retire"]
  /\ args' = [args EXCEPT ![w] = [NoArgs EXCEPT !.key = k]]
  /\ ret' = NoRet
  /\ UNCHANGED <<sync, rec, header, idx, nameIdx, size_, nextAddr, freed, clock,
                 snap, oldest, tcData, tcDel, gData, gDel, pending,
                 last_clean_all_ts, destroyed, aborted, hist, teardown>>

\* The write of a string key under its bucket lock: the new record takes the
\* entry; a tombstone is handed to the cleaner at once, with the entry it
\* occupies, and so is the data record the write supersedes. Both Push calls
\* (lines 10-26) take the old_records_lock of the worker's own cache. The
\* data record a Delete removes may have been reclaimed before: the tombstone
\* is written whether or not the entry was found.
EngineWrite(w, status) ==
  /\ ~aborted /\ pc[w] = "retire"
  /\ old_records_lock[w] = 0
  /\ LET k == args[w].key
         a == Allocate
         ts == clock + 1
         p == idx[k].ptr
         old == idx[k].s = "Ok" /\ rec[p].status = "Normal"
     IN /\ rec' = [rec EXCEPT ![a] =
                     ConstructDLRecord(ts, "HashElem", status, 0, 0, 0, k,
                                       EmptyVal, 0)]
        /\ idx' = [idx EXCEPT ![k] = [s |-> "Ok", status |-> status, ptr |-> a]]
        /\ tcData' = IF old
                       THEN [tcData EXCEPT ![w] = Append(@, [r |-> p, ts |-> ts])]
                       ELSE tcData
        /\ tcDel' = IF status = "Outdated"
                      THEN [tcDel EXCEPT
                              ![w] = Append(@, [r |-> a, key |-> k, ts |-> ts])]
                      ELSE tcDel
        /\ lock' = [lock EXCEPT ![k] = 0]
  /\ nextAddr' = nextAddr + 1
  /\ clock' = clock + 1
  /\ pc' = [pc EXCEPT ![w] = "idle"]
  /\ args' = [args EXCEPT ![w] = NoArgs]
  /\ ret' = NoRet
  /\ UNCHANGED <<sync, header, nameIdx, size_, freed, snap, oldest, gData, gDel,
                 pending, last_clean_all_ts, destroyed, aborted, hist, teardown>>

\* a purge that clears the entry without a second look
RecheckNever(e) == TRUE

\* purgeOldDeleteRecord line 204: the look at the entry before the lock
FoundAt(e) == Clears(e)

\* purgeOldDeleteRecord line 207: the look at the entry under the bucket lock
RecheckUnderLock(e) == Clears(e)

\* purgeOldDeleteRecord lines 205-210, from the lock on
PurgeUnderLock(e) ==
  /\ lock[e.key] = 0
  /\ idx' = IF RecheckUnderLock(e) THEN [idx EXCEPT ![e.key] = EmptyEntry]
            ELSE idx
  /\ hist' = [hist EXCEPT !.kept = @ \/ ~Clears(e)]

\* TryCleanCachedOldRecords lines 141-144: the worker locks its own cache
CachedBegin(w, num_limit_clean, upd) ==
  /\ ~aborted /\ pc[w] = "idle"
  /\ Len(tcData[w]) > 0 \/ Len(tcDel[w]) > 0
  /\ old_records_lock[w] = 0
  /\ upd => clock + OwedTicks < MaxQueueTs
  /\ clock' = IF upd THEN clock + 1 ELSE clock
  /\ oldest' = IF upd THEN OldestSnapshot(clock + 1) ELSE oldest
  /\ old_records_lock' = [old_records_lock EXCEPT ![w] = w]
  /\ pc' = [pc EXCEPT ![w] = "clean"]
  /\ job' = [job EXCEPT ![w] = [NoJob EXCEPT !.at = "delete",
                                              !.limit = num_limit_clean,
                                              !.left = num_limit_clean]]
  /\ ret' = NoRet
  /\ UNCHANGED <<cleaning_lock_, rec, header, idx, nameIdx, size_, nextAddr,
                 freed, snap, lock, args, tcData, tcDel, gData, gDel, pending,
                 last_clean_all_ts, destroyed, aborted, hist, teardown>>

\* the front tombstone left the cache of w and its space went to the allocator
CachedPurged(w) ==
  /\ freed' = BatchFree(freed, <<Head(tcDel[w]).r>>)
  /\ tcDel' = [tcDel EXCEPT ![w] = Tail(@)]
  /\ job' = [job EXCEPT ![w].at = "delete", ![w].left = @ - 1]
  /\ UNCHANGED aborted

\* TryCleanCachedOldRecords lines 145-154: the head of the loop over the
\* tombstones and the purge of the front one up to the bucket lock
CachedDelete(w) ==
  /\ ~aborted /\ job[w].at = "delete"
  /\ IF /\ tcDel[w] # <<>>
        /\ CachedEligible(Head(tcDel[w]), last_clean_all_ts)
        /\ job[w].left > 0
       THEN IF ~DeleteKind(Head(tcDel[w]))
              THEN /\ aborted' = TRUE
                   /\ UNCHANGED <<freed, tcDel, job>>
            ELSE IF FoundAt(Head(tcDel[w]))
              THEN /\ job' = [job EXCEPT ![w].at = "locking"]
                   /\ UNCHANGED <<freed, tcDel, aborted>>
            ELSE CachedPurged(w)
       ELSE /\ job' = [job EXCEPT ![w].at = "data"]
            /\ UNCHANGED <<freed, tcDel, aborted>>
  /\ ret' = NoRet
  /\ UNCHANGED <<cleaning_lock_, old_records_lock, rec, header, idx, nameIdx,
                 size_, nextAddr, clock, snap, oldest, lock, pc, args, tcData,
                 gData, gDel, pending, last_clean_all_ts, destroyed, hist,
                 teardown>>

\* the purge of the front tombstone under the bucket lock of its key
CachedLocked(w) ==
  /\ ~aborted /\ job[w].at = "locking"
  /\ PurgeUnderLock(Head(tcDel[w]))
  /\ CachedPurged(w)
  /\ ret' = NoRet
  /\ UNCHANGED <<cleaning_lock_, old_records_lock, rec, header, nameIdx, size_,
                 nextAddr, clock, snap, oldest, lock, pc, args, tcData, gData,
                 gDel, pending, last_clean_all_ts, destroyed, teardown>>

\* TryCleanCachedOldRecords lines 156-169: the loop over the data records;
\* the cache is unlocked on return
CachedData(w) ==
  /\ ~aborted /\ job[w].at = "data"
  /\ LET na == FrontCount(tcData[w], oldest, job[w].limit)
         dataFree == SubSeq(tcData[w], 1, na)
     IN IF \E i \in 1..na : ~DataKind(dataFree[i])
          THEN /\ aborted' = TRUE
               /\ UNCHANGED <<freed, tcData, old_records_lock, pc, job>>
          ELSE /\ freed' = BatchFree(freed, Spaces(dataFree))
               /\ tcData' = [tcData EXCEPT ![w] = SubSeq(@, na + 1, Len(@))]
               /\ old_records_lock' = [old_records_lock EXCEPT ![w] = 0]
               /\ pc' = [pc EXCEPT ![w] = "idle"]
               /\ job' = [job EXCEPT ![w] = NoJob]
               /\ UNCHANGED aborted
  /\ ret' = NoRet
  /\ UNCHANGED <<cleaning_lock_, rec, header, idx, nameIdx, size_, nextAddr,
                 clock, snap, oldest, lock, args, tcDel, gData, gDel, pending,
                 last_clean_all_ts, destroyed, hist, teardown>>

\* a fetch loop that keeps the lock of the cache it has fetched until the
\* pass ends
HeldUntilPassEnds == Background

\* TryCleanAll lines 46-57: the holder of the cache lock when the scope of the
\* lock_guard is left
HeldAfterFetch == 0

\* TryCleanAll lines 29-39: the pass reads the clock and the oldest snapshot
CleanAllBegin ==
  /\ ~aborted /\ job[Background].at = "idle"
  /\ clock + OwedTicks + 3 <= MaxQueueTs
  /\ clock' = clock + 2
  /\ oldest' = OldestSnapshot(clock + 2)
  /\ job' = [job EXCEPT ![Background] =
               [NoJob EXCEPT !.at = "fetch", !.ts = clock + 1,
                             !.oldest_snapshot_ts = OldestSnapshot(clock + 2),
                             !.i = 1]]
  /\ ret' = NoRet
  /\ UNCHANGED <<cleaning_lock_, old_records_lock, rec, header, idx, nameIdx,
                 size_, nextAddr, freed, snap, lock, pc, args, tcData, tcDel,
                 gData, gDel, pending, last_clean_all_ts, destroyed, aborted,
                 hist, teardown>>

\* TryCleanAll lines 42-58, one thread cache at a time, each under its lock;
\* after the last one lines 63-73: the data records are purged or held back.
\* The sizes are read at lines 44-45 before the lock is taken: while the
\* worker of the cache is inside a call that changes them the reading may be
\* anything, and a reading of nothing to fetch leaves the cache to a later pass
\* (lines 48 and 53 read the sizes again under the lock).
CleanAllFetch ==
  /\ ~aborted /\ job[Background].at = "fetch"
  /\ LET i == job[Background].i
         o == job[Background].oldest_snapshot_ts
     IN IF i <= NumWorkers
          THEN /\ \/ IF Len(tcData[i]) > 0 \/ Len(tcDel[i]) > DeleteBacklog
                       THEN /\ old_records_lock[i] = 0
                            /\ old_records_lock' =
                                 [old_records_lock EXCEPT ![i] = HeldAfterFetch]
                            /\ gData' = gData \o tcData[i]
                            /\ tcData' = [tcData EXCEPT ![i] = <<>>]
                            /\ IF Len(tcDel[i]) > DeleteBacklog
                                 THEN /\ gDel' = gDel \o tcDel[i]
                                      /\ tcDel' = [tcDel EXCEPT ![i] = <<>>]
                                 ELSE UNCHANGED <<gDel, tcDel>>
                       ELSE UNCHANGED <<old_records_lock, gData, gDel, tcData,
                                        tcDel>>
                  \/ /\ pc[i] # "idle"
                     /\ UNCHANGED <<old_records_lock, gData, gDel, tcData,
                                    tcDel>>
               /\ job' = [job EXCEPT ![Background].i = i + 1]
               /\ UNCHANGED aborted
          ELSE /\ IF \E n \in 1..Len(gData) :
                       Eligible(gData[n], o) /\ ~DataKind(gData[n])
                    THEN /\ aborted' = TRUE
                         /\ UNCHANGED <<gData, gDel, job>>
                    ELSE /\ gData' = Refered(gData, o)
                         /\ gDel' = <<>>
                         /\ job' = [job EXCEPT
                               ![Background].at = "deletes",
                               ![Background].todo = gDel,
                               ![Background].space_to_free =
                                  Spaces(SelectSeq(gData,
                                           LAMBDA e : Eligible(e, o)))]
                         /\ UNCHANGED aborted
               /\ UNCHANGED <<old_records_lock, tcData, tcDel>>
  /\ ret' = NoRet
  /\ UNCHANGED <<cleaning_lock_, rec, header, idx, nameIdx, size_, nextAddr,
                 freed, clock, snap, oldest, lock, pc, args, pending,
                 last_clean_all_ts, destroyed, hist, teardown>>

\* the front tombstone of the pass is purged: its space waits in space_pending
CleanAllPurged ==
  job' = [job EXCEPT
    ![Background].at = "deletes",
    ![Background].todo = Tail(@),
    ![Background].space_pending = Append(@, Head(job[Background].todo).r)]

\* TryCleanAll lines 80-91: one tombstone of the global queue, purged up to
\* the bucket lock or held back
CleanAllDelete ==
  /\ ~aborted /\ job[Background].at = "deletes"
  /\ job[Background].todo # <<>>
  /\ LET e == Head(job[Background].todo)
     IN IF ~Eligible(e, job[Background].oldest_snapshot_ts)
          THEN /\ job' = [job EXCEPT ![Background].todo = Tail(@),
                                     ![Background].refered = Append(@, e)]
               /\ UNCHANGED aborted
        ELSE IF ~DeleteKind(e)
          THEN aborted' = TRUE /\ UNCHANGED job
        ELSE IF FoundAt(e)
          THEN job' = [job EXCEPT ![Background].at = "locking"]
                 /\ UNCHANGED aborted
        ELSE CleanAllPurged /\ UNCHANGED aborted
  /\ ret' = NoRet
  /\ UNCHANGED <<cleaning_lock_, old_records_lock, rec, header, idx, nameIdx,
                 size_, nextAddr, freed, clock, snap, oldest, lock, pc, args,
                 tcData, tcDel, gData, gDel, pending, last_clean_all_ts,
                 destroyed, hist, teardown>>

\* the purge of that tombstone under the bucket lock of its key
CleanAllLocked ==
  /\ ~aborted /\ job[Background].at = "locking"
  /\ PurgeUnderLock(Head(job[Background].todo))
  /\ CleanAllPurged
  /\ ret' = NoRet
  /\ UNCHANGED <<cleaning_lock_, old_records_lock, rec, header, nameIdx, size_,
                 nextAddr, freed, clock, snap, oldest, lock, pc, args, tcData,
                 tcDel, gData, gDel, pending, last_clean_all_ts, destroyed,
                 aborted, teardown>>

\* TryCleanAll lines 93-134: the batch of the pass is queued, the due batches
\* and the data records are freed, the records held back are queued again
CleanAllEnd ==
  /\ ~aborted /\ job[Background].at = "deletes"
  /\ job[Background].todo = <<>>
  /\ LET j == job[Background]
         queued == IF j.space_pending # <<>>
                     THEN Append(pending,
                                 PendingFreeBatch(j.space_pending, clock + 1))
                     ELSE pending
         n == HeadCount(queued, j.oldest_snapshot_ts)
     IN /\ clock' = IF j.space_pending # <<>> THEN clock + 1 ELSE clock
        /\ last_clean_all_ts' = j.ts
        /\ freed' = BatchFree(freed, BatchSpaces(queued, n) \o j.space_to_free)
        /\ pending' = SubSeq(queued, n + 1, Len(queued))
        /\ gDel' = j.refered
        /\ hist' = [hist EXCEPT !.drained = @ \/ n > 0]
  /\ old_records_lock' =
       [w \in Workers |-> IF old_records_lock[w] = Background THEN 0
                          ELSE old_records_lock[w]]
  /\ job' = [job EXCEPT ![Background] = NoJob]
  /\ ret' = NoRet
  /\ UNCHANGED <<cleaning_lock_, rec, header, idx, nameIdx, size_, nextAddr,
                 snap, oldest, lock, pc, args, tcData, tcDel, gData, destroyed,
                 aborted, teardown>>

LockAny == \E w \in Workers, k \in Keys : LockBucket(w, k)

WriteAnyRecord == \E w \in Workers, status \in {"Normal", "Outdated"} :
                    EngineWrite(w, status)

CleanCachedStep == \E w \in Workers :
                     \/ \E n \in 1..MaxLimit, upd \in BOOLEAN : CachedBegin(w, n, upd)
                     \/ CachedDelete(w)
                     \/ CachedLocked(w)
                     \/ CachedData(w)

\* the writers of the engine and both cleaning paths, every lock taken and
\* released in its own step
NextLocks ==
  \/ LockAny
  \/ WriteAnyRecord
  \/ CleanCachedStep
  \/ CleanAllBegin
  \/ CleanAllFetch
  \/ CleanAllDelete
  \/ CleanAllLocked
  \/ CleanAllEnd

SpecLocks == Init /\ [][NextLocks]_vars

\* ------------------------------------------------------------- CheckIndex
\* CheckIndex, lines 231-261, from record cur on; n bounds the walk
RECURSIVE CheckFrom(_, _)
CheckFrom(cur, n) ==
  IF cur = header THEN "Ok"
  ELSE IF n = 0 \/ cur = 0 THEN "Endless"
  ELSE IF rec[cur].key \notin Keys \/ idx[rec[cur].key].s # "Ok" THEN "Abort"
  ELSE IF idx[rec[cur].key].ptr # cur THEN "Abort"
  ELSE IF ~Linked(rec, cur) THEN "Abort"
  ELSE CheckFrom(rec[cur].next, n - 1)

CheckIndex == CheckFrom(rec[header].next, MaxAddr)

\* ------------------------------------------------------------- properties
\* no call is running and the process is alive
Quiescent == ~aborted /\ \A w \in Workers : pc[w] = "idle"

\* the elements linked between header.next and the header
LinkedElems == SeqToSet(Elements(rec, header))

\* C1: with strictly increasing timestamps and no write of k in flight, Get(k)
\* answers what the reference map of the calls made so far holds for k: the
\* value of the latest Put or Modify-Write, NotFound when k was never written or
\* a Delete came last
C1_GetAgreesWithReference ==
  \A k \in Keys : (~aborted /\ lock[k] = 0) => Get(k) = hist.ref[k]

\* C1 witness: a key deleted and put again is visible
C1_PutAfterDeleteVisible ==
  \E k \in Keys :
    /\ ~aborted /\ lock[k] = 0 /\ Get(k) \in Vals
    /\ rec[idx[k].ptr].old_version # 0
    /\ rec[rec[idx[k].ptr].old_version].status = "Outdated"

\* worker w calls Delete on k in this step
DeleteCalled(w, k) ==
  /\ pc[w] = "idle"
  /\ \/ ret'.w = w /\ ret'.op = "Delete" /\ ret'.key = k
     \/ pc'[w] = "write" /\ args'[w].call = "Delete" /\ args'[w].key = k

\* C2: a Delete of a key the index does not hold, or holds as a tombstone,
\* returns Ok at once, takes no space from the allocator, writes no record and
\* leaves the list, the index, Size() and the cleaner's caches as they were
C2_DeleteOfAbsentIsNoop ==
  [][\A w \in Workers, k \in Keys :
       (DeleteCalled(w, k) /\ (idx[k].s # "Ok" \/ idx[k].status = "Outdated"))
         => /\ ret'.w = w /\ ret'.s = "Ok" /\ ret'.written = 0
            /\ pc'[w] = "idle"
            /\ UNCHANGED <<rec, header, idx, size_, nextAddr, freed, lock,
                           tcData, tcDel>>]_vars

\* C2 witness: a second Delete has returned Ok without writing
C2_SecondDeleteReturned ==
  /\ ret.op = "Delete" /\ ret.s = "Ok" /\ ret.written = 0
  /\ idx[ret.key].s = "Ok" /\ idx[ret.key].status = "Outdated"

\* the Normal elements reachable from the header
NormalElems ==
  {a \in LinkedElems : rec[a].type = "HashElem" /\ rec[a].status = "Normal"}

\* what the lookup of a prepared write says the write does to Size()
ExpectedDelta(a) ==
  IF a.op = "Put"
    THEN IF a.ls # "Ok" \/ a.est = "Outdated" THEN 1 ELSE 0
    ELSE IF a.ls = "Ok" /\ a.est = "Normal" THEN -1 ELSE 0

SizeStep ==
  IF \E w \in Workers : pc[w] = "write" /\ pc'[w] = "idle"
    THEN \A w \in Workers :
           (pc[w] = "write" /\ pc'[w] = "idle")
             => size_' = size_ + ExpectedDelta(args[w])
    ELSE size_' = size_

\* C3: Size() never goes below zero, at quiescence it is the number of Normal
\* HashElem records reachable from the header, and it changes only when a write
\* completes: by +1 for a Put over nothing or over a tombstone, by -1 for a
\* Delete over a Normal record, by 0 otherwise
C3_SizeFaithful ==
  /\ [](size_ >= 0 /\ (Quiescent => size_ = Cardinality(NormalElems)))
  /\ [][SizeStep]_vars

\* C3 witness: at quiescence one live key is counted beside a linked tombstone
C3_SizeCountsLiveOnly ==
  /\ Quiescent /\ size_ = 1
  /\ \E a \in LinkedElems : rec[a].status = "Outdated"

\* C4: at quiescence every sub-key has at most one linked record, the index
\* entry of each linked element points at that element, and CheckIndex()
\* returns Ok
C4_UniqueAndIndexed ==
  Quiescent =>
    /\ \A k \in Keys : Cardinality({a \in LinkedElems : rec[a].key = k}) <= 1
    /\ \A a \in LinkedElems :
         idx[rec[a].key].s = "Ok" /\ idx[rec[a].key].ptr = a
    /\ CheckIndex = "Ok"

\* C4 witness: under a rewritten header a key that was written twice has one
\* linked record, the second, and CheckIndex has walked it
C4_CheckedAfterRewrites ==
  /\ Quiescent /\ header # 1 /\ CheckIndex = "Ok"
  /\ \E a \in LinkedElems : rec[a].old_version # 0

\* the walk along next from the header ends at the header
ReturnsToHeader ==
  LET E == Elements(rec, header)
  IN (IF E = <<>> THEN rec[header].next ELSE rec[E[Len(E)]].next) = header

\* C6: following next from the header returns to the header, every linked
\* record is the prev of its next, and every record the index holds is among
\* the elements of the current header, also after SetExpireTime replaced it
C6_CycleAndDuality ==
  Quiescent =>
    /\ ReturnsToHeader
    /\ \A a \in LinkedElems \cup {header} :
         rec[a].next # 0 /\ rec[rec[a].next].prev = a
    /\ \A k \in Keys : idx[k].s = "Ok" => idx[k].ptr \in LinkedElems

\* C6 witness: SetExpireTime has just replaced the header of a list of two
C6_HeaderReplaced ==
  /\ Quiescent /\ ret.op = "SetExpireTime" /\ ret.s = "Ok"
  /\ header = ret.written /\ Cardinality(LinkedElems) = 2

\* the old_version chain from record a: strictly decreasing timestamps, and it
\* ends at null
ChainDecreasing(a) ==
  LET C == OldVersions(a, MaxAddr)
  IN /\ \A i \in 1..(Len(C) - 1) : rec[C[i]].ts > rec[C[i + 1]].ts
     /\ rec[C[Len(C)]].old_version = 0

\* the record the index holds for k is the newest ever written, over a
\* strictly decreasing chain
NewestOnTop(k) ==
  idx[k].s = "Ok" =>
    /\ rec[idx[k].ptr].ts = hist.maxTs[k]
    /\ ChainDecreasing(idx[k].ptr)

C7_FreedAtMostOnce == \A a \in Addrs : freed[a] <= 1

\* C8, as stated: the cleaner never hands back a record while an active
\* snapshot is not later than the writer that retired it
C8_NoFreeUnderSnapshot == ~hist.early

\* C9, as stated: Get never reads the status or the value of a record whose
\* space the allocator has back
C9_NoReadOfFreed == ~hist.uaf

\* C10, as stated: a Get racing writes of its key answers with the outcome of
\* a state between its call and its return: what the key held when the Get
\* started, or what a write called meanwhile makes it hold; NotFound only if
\* one of these is NotFound
C10_GetSeesOldOrNew ==
  ret.op = "Get" =>
    (IF ret.s = "Ok" THEN ret.val ELSE NotFoundVal) \in ret.allowed

\* C11, as stated: every Put, Delete and Modify call that has started its write
\* returns, and no call returns Fail
C11_EveryCallReturns ==
  /\ \A w \in Workers : (pc[w] = "write") ~> (pc[w] = "idle")
  /\ [](ret.s # "Fail")

\* what does hold: a write in flight returns unless the process has died in
\* an assert of putPrepared or deletePrepared, or on the null record of
\* deletePrepared
ReturnsUnlessDead ==
  \A w \in Workers : (pc[w] = "write") ~> (pc[w] = "idle" \/ aborted)

\* worker w has returned from a Modify in this step without a write
ModifyReturned(w) ==
  pc[w] = "idle" /\ ret'.w = w /\ ret'.op = "Modify"

\* C12: a Modify whose transformer answers Abort returns Abort, one whose
\* transformer answers Noop returns Ok; either takes no space, writes and links
\* no record, leaves Size() and the cleaner's caches alone, and Get answers for
\* every key what it answered before
C12_ModifyAbortNoopFrame ==
  [][\A w \in Workers :
       (ModifyReturned(w) /\ ret'.mop \in {"Abort", "Noop"})
         => /\ ret'.s = (IF ret'.mop = "Abort" THEN "Abort" ELSE "Ok")
            /\ ret'.written = 0
            /\ UNCHANGED <<rec, header, size_, nextAddr, freed, tcData, tcDel>>
            /\ \A k \in Keys : Get(k)' = Get(k)]_vars

\* C12 witness: Modify has returned Abort on a key that holds a value
C12_AbortOnLiveKey ==
  /\ ret.op = "Modify" /\ ret.mop = "Abort" /\ ret.s = "Abort"
  /\ Get(ret.key) \in Vals

\* C13: a call that returns MemoryOverflow leaves the records and their
\* linkage, the header, Size(), the cleaner's caches, queues and pending
\* batches and the allocator's free list as they were, and Get answers for
\* every key what it answered before
C13_OverflowHasNoEffect ==
  [][ret'.s = "MemoryOverflow"
       => /\ UNCHANGED <<rec, header, size_, freed, tcData, tcDel, gData, gDel,
                         pending>>
          /\ \A k \in Keys : Get(k)' = Get(k)]_vars

\* C13 witness: each of Put, Delete, Modify and SetExpireTime can give up with
\* MemoryOverflow; here Put has, on a list that holds a value
C13_PutOverflowed ==
  /\ ret.op = "Put" /\ ret.s = "MemoryOverflow"
  /\ \E k \in Keys : Get(k) \in Vals

\* worker w hands this list a descriptor bound to another list in this step
ForeignDescriptor(w) ==
  \/ \E op \in {"Put", "Delete"}, k \in Keys :
       \E v \in IF op = "Put" THEN Vals ELSE {EmptyVal} :
         PrepareWriteOf(w, "other", op, k, v, clock + 1)
  \/ WriteOf(w, "other")

\* C14: PrepareWrite and Write of a descriptor bound to another collection
\* return InvalidArgument and do nothing: no lookup or reservation in the index,
\* no allocation, no record written, no change of the list, of Size() or of the
\* caller's own prepared write
C14_ForeignDescriptorRejected ==
  [][\A w \in Workers :
       ForeignDescriptor(w)
         => /\ ret'.s = "InvalidArgument"
            /\ UNCHANGED <<rec, header, idx, size_, nextAddr, freed, lock, args,
                           pc, tcData, tcDel>>]_vars

\* C14 witness: Write has turned down a foreign descriptor while the worker has
\* a write of its own prepared on a list that holds an element
C14_WriteTurnedDown ==
  /\ ret.op = "Write" /\ ret.s = "InvalidArgument"
  /\ pc[ret.w] = "write"
  /\ LinkedElems # {}

\* C15: after SetExpireTime(e, t) returns Ok the header is a new HashHeader
\* record with expire time e and timestamp t, with the key and value of the old
\* header and old_version pointing at it; the old header is returned as
\* existing_record and is no longer reachable in the list; the elements are
\* linked in the order they had, and Size() is unchanged
C15_HeaderReplacedInPlace ==
  [][\A w \in Workers, e \in 1..MaxExpire :
       (SetExpireTime(w, e, clock + 1) /\ ret'.s = "Ok")
         => /\ header' = ret'.written /\ header' # header
            /\ rec'[header'].type = "HashHeader"
            /\ rec'[header'].expire = e
            /\ rec'[header'].ts = clock + 1
            /\ rec'[header'].key = rec[header].key
            /\ rec'[header'].val = rec[header].val
            /\ rec'[header'].old_version = header
            /\ ret'.existing = header
            /\ rec'[header] = rec[header]
            /\ header \notin SeqToSet(Elements(rec', header'))
            /\ Elements(rec', header') = Elements(rec, header)
            /\ \A a \in LinkedElems :
                 /\ rec'[a].key = rec[a].key /\ rec'[a].val = rec[a].val
                 /\ rec'[a].status = rec[a].status
            /\ Linked(rec', header')
            /\ size_' = size_]_vars

\* C15 witness: the header of a list that holds an element has been replaced
\* twice
C15_ReplacedTwice ==
  /\ ret.op = "SetExpireTime" /\ ret.s = "Ok" /\ header = ret.written
  /\ rec[ret.existing].old_version # 0
  /\ LinkedElems # {}

\* C16, as stated: whenever a worker is about to run deletePrepared, through
\* Delete or through a Modify whose transformer answered Delete, the lookup of
\* its descriptor is Ok and the entry is a Normal HashElem
C16_DeleteWritePrecondition ==
  \A w \in Workers :
    (pc[w] = "write" /\ args[w].op = "Delete")
      => /\ args[w].ls = "Ok" /\ args[w].est = "Normal"
         /\ rec[args[w].eptr].type = "HashElem"

\* what does hold: the precondition is met on the path through Delete, which
\* PrepareWrite gates
DeleteCallPrecondition ==
  \A w \in Workers :
    (pc[w] = "write" /\ args[w].call = "Delete")
      => /\ args[w].ls = "Ok" /\ args[w].est = "Normal"
         /\ rec[args[w].eptr].type = "HashElem"

\* worker w completes the write step of a Put in this step
PutWritten(w) ==
  pc[w] = "write" /\ args[w].op = "Put" /\ pc'[w] = "idle" /\ ~aborted'

\* the record written for w took the place of the existing record by Update
UpdatedInPlace(w) ==
  LET a == args[w]
  IN /\ a.ls = "Ok"
     /\ rec'[a.space].old_version = a.eptr
     /\ rec'[a.space].prev = (IF rec[a.eptr].prev = a.eptr THEN a.space
                              ELSE rec[a.eptr].prev)
     /\ rec'[a.space].next = (IF rec[a.eptr].next = a.eptr THEN a.space
                              ELSE rec[a.eptr].next)
     /\ a.eptr \notin SeqToSet(Elements(rec', header))

\* the record written for w was pushed next to the header
PushedAtHeader(w) ==
  LET a == args[w]
  IN /\ rec'[a.space].old_version = 0
     /\ rec'[a.space].prev = header \/ rec'[a.space].next = header
     /\ \A e \in LinkedElems : e \in SeqToSet(Elements(rec', header))

\* C17, as stated: the write step of a Put uses Update only when the existing
\* record is Normal, and pushes the new record next to the header when the key
\* is NotFound or resolves to an Outdated tombstone
C17_UpdateOnlyOverNormal ==
  [][\A w \in Workers :
       PutWritten(w)
         => IF args[w].ls = "Ok" /\ args[w].est = "Normal"
              THEN UpdatedInPlace(w)
              ELSE PushedAtHeader(w)]_vars

\* C17, amended: the write step of a Put uses Update whenever the lookup found an
\* entry, Normal or tombstone, and pushes next to the header only when the key
\* is NotFound
C17_UpdateOverAnyEntry ==
  [][\A w \in Workers :
       PutWritten(w)
         => IF args[w].ls = "Ok"
              THEN UpdatedInPlace(w)
              ELSE PushedAtHeader(w)]_vars

\* C17 witness: a Put has taken the place of a tombstone, which is its
\* old_version
C17_PutOverTombstone ==
  /\ ret.op = "Put" /\ ret.s = "Ok" /\ ret.existing # 0
  /\ rec[ret.existing].status = "Outdated"
  /\ rec[ret.written].old_version = ret.existing
  /\ ret.written \in LinkedElems /\ ret.existing \notin LinkedElems

\* record a was superseded by a write: a written record names it as old_version
Superseded(a) ==
  \E b \in Addrs : rec[b].type # "None" /\ rec[b].old_version = a

\* record a is in a thread cache, a global queue or a pending batch of the
\* cleaner
HeldByCleaner(a) ==
  \/ \E w \in Workers :
       \/ \E i \in 1..Len(tcData[w]) : tcData[w][i].r = a
       \/ \E i \in 1..Len(tcDel[w]) : tcDel[w][i].r = a
  \/ \E i \in 1..Len(gData) : gData[i].r = a
  \/ \E i \in 1..Len(gDel) : gDel[i].r = a
  \/ \E i \in 1..Len(pending) :
       \E j \in 1..Len(pending[i].entries) : pending[i].entries[j] = a

\* no superseded record is lost: it is in the hands of the cleaner or freed
NoOrphan ==
  ~aborted =>
    \A a \in Addrs : Superseded(a) => (HeldByCleaner(a) \/ freed[a] > 0)

\* worker w returns Ok from the write step of a Put or Delete that superseded a
\* record
SupersedingWrite(w) ==
  /\ pc[w] = "write" /\ pc'[w] = "idle" /\ ret'.s = "Ok" /\ ret'.w = w
  /\ ret'.existing # 0

\* the record the write of w superseded is the newest entry of w's cache of
\* old data records, or of old delete records
CachedAsData(w) ==
  /\ tcData'[w] = Append(tcData[w], [r |-> ret'.existing, ts |-> args[w].ts])
  /\ tcDel'[w] = tcDel[w]

CachedAsDelete(w) ==
  /\ tcDel'[w] = Append(tcDel[w], [r |-> ret'.existing, key |-> args[w].key,
                                   ts |-> args[w].ts])
  /\ tcData'[w] = tcData[w]

DestroyTerminates == teardown.on ~> (destroyed \/ aborted)

\* the step in which a Destroy or DestroyAll returns
DestroyReturns == teardown.on /\ ~teardown'.on

\* the records that were constructed
Constructed == {a \in Addrs : rec[a].type # "None"}

\* the state on return: every element and the header are unlinked, no index
\* entry points at a record of the list, the space of every record that was the
\* newest version went to BatchFree, and with DestroyAll the space of every old
\* version too; Destroy frees no old version
DestroyLeavesNothing ==
  /\ DestroyReturns
       => /\ \A a \in Constructed \ {teardown.header} : ~Linked(rec', a)
          /\ rec'[teardown.header].next = teardown.header
          /\ \A k \in Keys : idx'[k].s # "Ok"
          /\ nameIdx' = FALSE
          /\ \A a \in Constructed : ~Superseded(a) => freed'[a] > 0
          /\ teardown.all => \A a \in Constructed : freed'[a] > 0
  /\ (DestroyRemove /\ ~teardown.all)
       => \A a \in Constructed : Superseded(a) => freed'[a] = freed[a]

\* C19, as stated: Destroy and DestroyAll terminate, also on a list of the
\* header alone and when Remove answers false for the record at header->next,
\* and when they return every element and the header are unlinked, the index
\* entries that pointed at them are erased and their space went to BatchFree,
\* with the old versions freed by DestroyAll only
C19_DestroyReturnsClean ==
  /\ DestroyTerminates
  /\ [][DestroyLeavesNothing]_vars

\* Remove answers false for the record Destroy read at header->next
RemoveFailed ==
  teardown.on /\ teardown.to_destroy # 0 /\ ~Linked(rec, teardown.to_destroy)

\* the space of tombstone a reaches the allocator in this step of the cleaner
TombstoneFreed(a) ==
  rec[a].status = "Outdated" /\ freed'[a] > freed[a] /\ destroyed' = destroyed

\* tombstone a waits in a pending batch that this pass finds old enough
PendingAndDue(a) ==
  \E i \in 1..Len(pending) :
    /\ \E j \in 1..Len(pending[i].entries) : pending[i].entries[j] = a
    /\ pending[i].free_ts < oldest'

\* C20, as stated: the space of a purged tombstone reaches the allocator only
\* out of a pending batch, in a pass later than the one that purged it and
\* with free_ts < oldest_snapshot_ts; neither TryCleanAll nor
\* TryCleanCachedOldRecords frees it at purge time
C20_TombstonesFreedThroughPending ==
  [][\A a \in Addrs : TombstoneFreed(a) => PendingAndDue(a)]_vars

\* what does hold: TryCleanAll frees tombstones out of due pending batches only
TryCleanAllThroughPending ==
  [][TryCleanAll => \A a \in Addrs : TombstoneFreed(a) => PendingAndDue(a)]_vars

\* a TryCleanAll pass that ran to its end
CleanAllStep == last_clean_all_ts' # last_clean_all_ts /\ ~aborted'

\* space a lies in a batch of the pending queue P
InPending(P, a) ==
  \E i \in 1..Len(P) : \E j \in 1..Len(P[i].entries) : P[i].entries[j] = a

PendingSorted ==
  \A i \in 1..Len(pending) : \A j \in 1..Len(pending) :
    i < j => pending[i].free_ts <= pending[j].free_ts

\* what a pass does to the batches that were pending when it began
DrainsExactlyDue ==
  CleanAllStep =>
    /\ \A i \in 1..Len(pending') : ~(pending'[i].free_ts < oldest')
    /\ \A i \in 1..Len(pending) : \A j \in 1..Len(pending[i].entries) :
         LET a == pending[i].entries[j]
         IN IF pending[i].free_ts < oldest'
              THEN freed'[a] = freed[a] + 1 /\ ~InPending(pending', a)
              ELSE /\ freed'[a] = freed[a]
                   /\ \E m \in 1..Len(pending') : pending'[m] = pending[i]

\* C21: the free_ts of the pending batches never decrease from head to tail,
\* and a TryCleanAll pass frees and removes exactly the batches whose free_ts
\* is below the oldest_snapshot_ts of the pass, leaving none of them behind a
\* batch that is not due.
C21_PendingFifoDrain == []PendingSorted /\ [][DrainsExactlyDue]_vars

\* two batches wait in order, and the last pass left the head one behind
C21_TwoBatchesWaitInOrder ==
  /\ Len(pending) >= 2
  /\ pending[1].free_ts < pending[2].free_ts
  /\ last_clean_all_ts > pending[1].free_ts

\* a pass freed the head batch and stopped at the next one, which is not due
C21_DrainStopsAtFirstNotDue ==
  /\ hist.drained
  /\ Len(pending) >= 1
  /\ last_clean_all_ts > pending[1].free_ts
  /\ \E a \in Addrs : freed[a] = 1 /\ rec[a].status = "Outdated"

\* the batch of the pending queue P that holds space a is due at reading o
DueIn(P, a, o) ==
  \E i \in 1..Len(P) :
    /\ \E j \in 1..Len(P[i].entries) : P[i].entries[j] = a
    /\ P[i].free_ts < o

\* the tombstone spaces a pass gives back were pending, and due, when the
\* pass began; the batch the pass adds is stamped after its oldest_snapshot_ts
FreedByLaterPass ==
  CleanAllStep =>
    /\ \A a \in Addrs :
         (freed'[a] > freed[a] /\ rec[a].status = "Outdated")
           => DueIn(pending, a, oldest')
    /\ \A i \in 1..Len(pending') :
         (\A m \in 1..Len(pending) : pending[m] # pending'[i])
           => /\ pending'[i].free_ts > oldest'
              /\ pending'[i].free_ts > last_clean_all_ts'
              /\ \A j \in 1..Len(pending'[i].entries) :
                   freed'[pending'[i].entries[j]] = freed[pending'[i].entries[j]]

\* C26: a pending batch is never batch-freed by the TryCleanAll pass that
\* created it: its free_ts is read from the clock after the pass sampled
\* oldest_snapshot_ts, so it is not below it, and the spaces of the batch go
\* back to the allocator only in a later pass whose oldest_snapshot_ts exceeds
\* the free_ts.
C26_BatchFreedByLaterPass == [][FreedByLaterPass]_vars

\* a batch went through the queue: a later pass gave its spaces back
C26_BatchWaitedThenFreed ==
  /\ hist.drained
  /\ \E a \in Addrs :
       /\ rec[a].status = "Outdated" /\ freed[a] = 1
       /\ ~InPending(pending, a)

\* how often record a is queued in Q
CountIn(Q, a) == Cardinality({i \in 1..Len(Q) : Q[i].r = a})

\* how often space a lies in a batch of the pending queue
CountPending(a) ==
  Cardinality({p \in (1..Len(pending)) \X Addrs :
                 /\ p[2] <= Len(pending[p[1]].entries)
                 /\ pending[p[1]].entries[p[2]] = a})

\* the places that hold record a: the caches of the workers, the global
\* queues, the pending batches, and the allocator once per free
Places(a) ==
  CountIn(Concat(tcData, 1), a) + CountIn(Concat(tcDel, 1), a)
    + CountIn(gData, a) + CountIn(gDel, a) + CountPending(a) + freed[a]

\* every record of the arena but the header was handed to Push
Pushed(a) == a # header /\ rec[a].type # "None"

ExactlyOnePlace == ~aborted => \A a \in Addrs : Pushed(a) => Places(a) = 1

\* the records a pass holds back are in the global queues when it ends (the
\* tombstones of a cache below the high-water mark stay in the cache)
NotDueRequeued ==
  CleanAllStep =>
    /\ \A e \in SeqToSet(gData \o Concat(tcData, 1)) :
         ~Eligible(e, oldest') => e \in SeqToSet(gData')
    /\ \A e \in SeqToSet(gDel \o Concat(tcDel, 1)) :
         ~Eligible(e, oldest') =>
           e \in SeqToSet(gDel') \cup SeqToSet(Concat(tcDel', 1))

\* C25: the cleaner neither loses nor duplicates a queued record: under any
\* interleaving of Push, TryCleanAll and TryCleanCachedOldRecords every pushed
\* record is in exactly one place (a worker cache, a global queue, a pending
\* batch, or freed once), and the records a pass finds not eligible are all
\* queued again for the next pass.
C25_QueuedRecordsConserved == []ExactlyOnePlace /\ [][NotDueRequeued]_vars

\* one record waits in a cache, one was held back by a pass, one is free
C25_RecordsInEveryPlace ==
  /\ \E w \in Workers : tcData[w] \o tcDel[w] # <<>>
  /\ gData \o gDel # <<>>
  /\ \E a \in Addrs : Pushed(a) /\ freed[a] = 1

\* how often space a lies in the sequence S of spaces
CountSpace(S, a) == Cardinality({i \in 1..Len(S) : S[i] = a})

\* the places of record a inside a pass that is under way: the tombstones
\* still to look at, the ones held back, and the spaces it has collected
PlacesInPass(a) ==
  CountIn(job[Background].todo, a) + CountIn(job[Background].refered, a)
    + CountSpace(job[Background].space_pending, a)
    + CountSpace(job[Background].space_to_free, a)

\* record a is the data record its key's entry points at: no writer has
\* superseded it, so nothing has pushed it
IndexedLive(a) ==
  \E k \in Keys : /\ idx[k].s = "Ok" /\ idx[k].ptr = a
                  /\ rec[a].status = "Normal"

\* the same conservation with every lock taken in its own step: a record is
\* queued once when a writer pushes it and is in one place from then on, also
\* while a pass or a cached cleaning is between two of its steps
QueuedOnceLockByLock ==
  ~aborted =>
    \A a \in Addrs :
      (a # header /\ rec[a].type # "None") =>
        Places(a) + PlacesInPass(a) = (IF IndexedLive(a) THEN 0 ELSE 1)

\* a cleaning call purges or frees in this step: a queue of the cleaner
\* shrinks, which no step of Destroy or of a writer does
CleanerPurges ==
  \/ Len(gData') + Len(Concat(tcData', 1)) < Len(gData) + Len(Concat(tcData, 1))
  \/ Len(gDel') + Len(Concat(tcDel', 1)) < Len(gDel) + Len(Concat(tcDel, 1))
  \/ Len(pending') < Len(pending)

TryLockFailsWhileHeld ==
  (ret'.op = "TryCleaningLock" /\ cleaning_lock_ # {})
    => ret'.s = "false" /\ cleaning_lock_' = cleaning_lock_

\* C23: Destroy and DestroyAll never run at the same time as a cleaner purge
\* that touches a record of the collection: at most one thread holds
\* cleaning_lock_, TryCleaningLock answers false while it is held, a list is
\* destroyed only while it is held, and no purge happens while a list is
\* being destroyed.
C23_DestroyExcludesCleaning ==
  /\ [](Cardinality(cleaning_lock_) <= 1)
  /\ [][TryLockFailsWhileHeld]_vars
  /\ [](teardown.on => cleaning_lock_ # {})
  /\ [][teardown.on => ~CleanerPurges]_vars

\* what the lock itself gives: one holder, refusal while held, Destroy under it
C23_LockItselfHolds ==
  /\ [](Cardinality(cleaning_lock_) <= 1)
  /\ [][TryLockFailsWhileHeld]_vars
  /\ [](teardown.on => cleaning_lock_ # {})

\* thread a returns from purgeOldDeleteRecord(e) in this step
PurgeReturns(a, e) ==
  IF a = Background
    THEN /\ job[a].at \in {"deletes", "locking"}
         /\ job[a].todo # <<>> /\ Head(job[a].todo) = e
         /\ Len(job'[a].space_pending) > Len(job[a].space_pending)
    ELSE /\ job[a].at \in {"delete", "locking"}
         /\ tcDel[a] # <<>> /\ Head(tcDel[a]) = e
         /\ tcDel'[a] = Tail(tcDel[a])

\* every tombstone a cleaning call may be about to purge
FrontTombstones ==
  {Head(tcDel[w]) : w \in {v \in Workers : tcDel[v] # <<>>}}
    \cup (IF job[Background].todo # <<>> THEN {Head(job[Background].todo)}
          ELSE {})

PurgeFrame ==
  \A a \in Actors : \A e \in FrontTombstones :
    PurgeReturns(a, e) =>
      /\ ~(idx'[e.key].s = "Ok" /\ idx'[e.key].ptr = e.r)
      /\ \A k \in Keys : k # e.key => idx'[k] = idx[k]
      /\ ~Clears(e) => idx' = idx
      /\ Clears(e) => job[a].at = "locking" /\ idx'[e.key] = EmptyEntry

\* C22: when purgeOldDeleteRecord(r) returns, the index entry that r
\* references does not point at r; an entry found under the bucket lock to
\* point at another, newer record is left as it is and is not cleared,
\* however the purge interleaves with a writer that repoints the entry.
C22_PurgeLeavesNewerEntry == [][PurgeFrame]_vars

\* a purge took the bucket lock and found the entry repointed by a writer
C22_PurgeFoundNewerRecord ==
  /\ hist.kept
  /\ \E k \in Keys :
       /\ idx[k].s = "Ok" /\ rec[idx[k].ptr].status = "Normal"
       /\ \E a \in Addrs :
            /\ rec[a].status = "Outdated" /\ rec[a].key = k
            /\ freed[a] = 1

\* a thread is inside a write or a cleaning call
Busy == \/ \E w \in Workers : pc[w] \in {"retire", "clean"}
        \/ job[Background].at # "idle"

\* the next step of a call that is under way
Progress ==
  \/ WriteAnyRecord
  \/ \E w \in Workers : CachedDelete(w) \/ CachedLocked(w) \/ CachedData(w)
  \/ CleanAllFetch
  \/ CleanAllDelete
  \/ CleanAllLocked
  \/ CleanAllEnd

\* C24: no deadlock is reachable among workers that hold a bucket lock while
\* they write and push to their own cache, workers in TryCleanCachedOldRecords
\* that hold their cache lock while a purge takes a bucket lock, and the
\* TryCleanAll pass that takes the cache locks one at a time: while a call is
\* under way, some call under way can take its next step.
C24_SomeCallCanStep == (~aborted /\ Busy) => ENABLED Progress

\* a purge that holds a cache lock waits for a bucket lock whose holder is
\* about to push, while the pass waits for that cache lock
C24_ThreeWayContention ==
  \E w \in Workers : \E v \in Workers :
    /\ job[w].at = "locking"
    /\ lock[Head(tcDel[w]).key] = v /\ pc[v] = "retire"
    /\ job[Background].at = "fetch" /\ job[Background].i = w
    /\ Len(tcData[w]) > 0 \/ Len(tcDel[w]) > DeleteBacklog
====
